---- MODULE Spec2Model ----
(***************************************************************************)
(* GovSight memory layer and retrieval helpers.                            *)
(*                                                                         *)
(*   Spec      the SQLite-backed Memory facade (govsight/memory/memory.py):*)
(*             remember_fact and log_message run statement by statement by *)
(*             two threads over two Memory handles on one database file.   *)
(*   SpecSlug  the slug helper _slugify_city_state and the key derivation  *)
(*             of get_structured_fact, as pure functions of their inputs.  *)
(*   SpecGuard get_pinecone_answer (archive/talk2.py): the semantic stage  *)
(*             with its contamination guard.                               *)
(*                                                                         *)
(* Text is a sequence of one-character strings, so that strip, lower,      *)
(* replace, substring search and byte-wise ordering are computed.          *)
(***************************************************************************)
EXTENDS Integers, Sequences, FiniteSets, TLC

VARIABLES
    db,         \* the committed database file: [facts, messages]
    writer,     \* the handle whose connection holds the open write transaction
    pend,       \* that connection's uncommitted view of the tables
    lockOwner,  \* per Memory handle: the thread inside `with self._lock`
    pc,         \* per thread: the statement it executes next
    args,       \* per thread: the arguments of the call in progress
    calls,      \* history: the remember_fact calls that returned or raised
    slugIn,     \* SpecSlug: the inputs drawn
    slugOut,    \* SpecSlug: the slugs computed from them
    gIn,        \* SpecGuard: user constraints and the index's matches
    gPc,        \* SpecGuard: position inside get_pinecone_answer
    gOut,       \* SpecGuard: the (context, score, sources) returned
    cIn,        \* SpecCascade: the parsed question, the stored facts, the adapters' results
    cPc,        \* SpecCascade: position inside retrieve and the chat loop's step 3
    cCalls,     \* SpecCascade: history: the stages invoked, in order
    cOut,       \* SpecCascade: what retrieve returned and what the loop replied
    wPc,        \* SpecTurn: position inside the web fallback of the chat loop
    wRun,       \* SpecTurn: the locals of answer_from_web and the calls made
    wOut,       \* SpecTurn: the turn's answer and what was stored from it
    mIn,        \* SpecMerge: the base and the incoming constraint map
    mPc,        \* SpecMerge: position of the merge
    mOut,       \* SpecMerge: the merged map
    bBuf,       \* SpecBuffer: conversation_buffer
    bActive,    \* SpecBuffer: active_context
    bTurn,      \* SpecBuffer: the loop's locals of the turn in progress
    bPushed,    \* SpecBuffer: history: every entry pushed, in push order
    bPc,        \* SpecBuffer: position inside the chat loop
    mmDb,       \* SpecManager: the tables of memory_manager's database
    mmPc,       \* SpecManager: position of the call in progress
    mmCalls     \* SpecManager: history: the calls that returned

vars ==
    <<db, writer, pend, lockOwner, pc, args, calls, slugIn, slugOut, gIn, gPc, gOut,
      cIn, cPc, cCalls, cOut, wPc, wRun, wOut, mIn, mPc, mOut,
      bBuf, bActive, bTurn, bPushed, bPc, mmDb, mmPc, mmCalls>>

storeVars ==
    <<db, writer, pend, lockOwner, pc, args, calls>>

slugVars ==
    <<slugIn, slugOut>>

guardVars ==
    <<gIn, gPc, gOut>>

cascadeVars ==
    <<cIn, cPc, cCalls, cOut>>

webVars ==
    <<wPc, wRun, wOut>>

mergeVars ==
    <<mIn, mPc, mOut>>

bufferVars ==
    <<bBuf, bActive, bTurn, bPushed, bPc>>

managerVars ==
    <<mmDb, mmPc, mmCalls>>

\* the variables of the chat loop's buffer and of memory_manager
restVars ==
    <<bufferVars, managerVars>>

\* the variables of the specifications that follow the guard's
laterVars ==
    <<cascadeVars, webVars, mergeVars, restVars>>

-----------------------------------------------------------------------------
(* Bounds of the model.                                                    *)

\* remember_fact calls (returned or raised) in one behaviour
MaxCalls ==
    2

\* log_message calls in one behaviour
MaxMsgs ==
    1

-----------------------------------------------------------------------------
(* Text.                                                                   *)

\* Python's None where a str is expected: a one-element sequence that is no text
None ==
    <<"None">>

Upper ==
    <<"A", "B", "C", "D", "E", "F", "G", "H", "I", "J", "K", "L", "M",
      "N", "O", "P", "Q", "R", "S", "T", "U", "V", "W", "X", "Y", "Z">>

Lowers ==
    <<"a", "b", "c", "d", "e", "f", "g", "h", "i", "j", "k", "l", "m",
      "n", "o", "p", "q", "r", "s", "t", "u", "v", "w", "x", "y", "z">>

\* the characters of the model in byte order (tab, space, A-Z, _, a-z)
Alphabet ==
    <<"\t", " ">> \o Upper \o <<"_">> \o Lowers

Code(c) ==
    CHOOSE i \in 1..Len(Alphabet) : Alphabet[i] = c

\* what str.strip() removes
Whitespace ==
    {" ", "\t"}

LowerChar(c) ==
    IF \E i \in 1..26 : Upper[i] = c
    THEN Lowers[CHOOSE i \in 1..26 : Upper[i] = c]
    ELSE c

\* str.lower()
Lower(s) ==
    [i \in 1..Len(s) |-> LowerChar(s[i])]

RECURSIVE LStrip(_)
LStrip(s) ==
    IF s # <<>> /\ Head(s) \in Whitespace THEN LStrip(Tail(s)) ELSE s

RECURSIVE RStrip(_)
RStrip(s) ==
    IF s # <<>> /\ s[Len(s)] \in Whitespace
    THEN RStrip(SubSeq(s, 1, Len(s) - 1))
    ELSE s

\* str.strip()
Strip(s) ==
    RStrip(LStrip(s))

\* str.replace(" ", "_")
ReplaceSpace(s) ==
    [i \in 1..Len(s) |-> IF s[i] = " " THEN "_" ELSE s[i]]

\* Python truthiness of an Optional[str]
Truthy(s) ==
    s # None /\ s # <<>>

\* byte-wise comparison of two texts (SQLite's BINARY collation)
RECURSIVE StrLess(_, _)
StrLess(a, b) ==
    IF b = <<>> THEN FALSE
    ELSE IF a = <<>> THEN TRUE
    ELSE IF Head(a) = Head(b) THEN StrLess(Tail(a), Tail(b))
    ELSE Code(Head(a)) < Code(Head(b))

\* needle in haystack (Python's `in` on str)
Contains(hay, needle) ==
    \E i \in 0..(Len(hay) - Len(needle)) :
        SubSeq(hay, i + 1, i + Len(needle)) = needle

-----------------------------------------------------------------------------
(* Subject slug helpers.                                                   *)

slugify_city_state(name, state) ==
    IF Truthy(state)
    THEN ReplaceSpace(Lower(Strip(name))) \o <<"_">> \o Lower(Strip(state))
    ELSE ReplaceSpace(Lower(Strip(name)))

subject_slug_city(city, state) ==
    slugify_city_state(city, state)

subject_slug_generic(name) ==
    slugify_city_state(name, None)

\* the slug get_structured_fact looks up
structured_slug(subject_type, subject_name, state) ==
    IF subject_type = "city" /\ Truthy(state)
    THEN subject_slug_city(subject_name, state)
    ELSE subject_slug_generic(subject_name)

-----------------------------------------------------------------------------
(* The Memory facade over SQLite.                                          *)

Threads ==
    {"t1", "t2"}

Handles ==
    {"h1", "h2"}

NoHandle ==
    "no-handle"

NoThread ==
    "no-thread"

\* t1 works on handle h1; t2 shares h1 or opens its own handle h2 on the same file
HandlesOf(t) ==
    IF t = "t1" THEN {"h1"} ELSE Handles

Grandview ==
    <<"G", "r", "a", "n", "d", "v", "i", "e", "w">>

TX ==
    <<"T", "X">>

grandview_tx ==
    <<"g", "r", "a", "n", "d", "v", "i", "e", "w", "_", "t", "x">>

mayor ==
    <<"m", "a", "y", "o", "r">>

budget ==
    <<"b", "u", "d", "g", "e", "t">>

\* (name, state) pairs a caller slugifies before remember_fact (talk.py:45)
Subjects ==
    {<<Grandview, TX>>, <<<<" ">>, None>>}

Attrs ==
    {mayor, budget}

Values ==
    {"Bill Houston", "Tommy Brandt"}

\* the `latest` argument: 1 by default, 0 to file a row that is not the latest
LatestArgs ==
    {0, 1}

DefaultStatus ==
    "pending-verify"

Sessions ==
    {1}

\* the turn_index argument of log_message: None, or an explicit index
TurnArgs ==
    {[given |-> FALSE, turn |-> 0], [given |-> TRUE, turn |-> 0]}

NoArgs ==
    [h |-> NoHandle, slug |-> <<>>, attr |-> <<>>, value |-> "", latest |-> 1,
     session |-> 0, given |-> FALSE, turn |-> 0]

EmptyTables ==
    [facts |-> <<>>, messages |-> <<>>]

\* what the connection of handle h reads: its own open transaction, or the file
View(h) ==
    IF writer = h THEN pend ELSE db

\* a write statement on h's connection needs the file's write lock
CanWrite(h) ==
    writer \in {NoHandle, h}

\* a mutant: the methods no longer take self._lock
LockFree_unguarded(h) ==
    TRUE

\* `with self._lock` can be entered: no other thread is inside it
LockFree(h) ==
    lockOwner[h] = NoThread

\* a mutant: the UPDATE selects on the subject alone, WHERE subject_slug=? AND latest=1
supersede_subject(facts, slug, attr) ==
    [i \in 1..Len(facts) |->
        IF facts[i].subject_slug = slug /\ facts[i].latest = 1
        THEN [facts[i] EXCEPT !.latest = 0, !.status = "superseded"]
        ELSE facts[i]]

\* a mutant: the UPDATE clears latest and leaves the status, SET latest=0
supersede_latest_only(facts, slug, attr) ==
    [i \in 1..Len(facts) |->
        IF facts[i].subject_slug = slug /\ facts[i].attr = attr /\ facts[i].latest = 1
        THEN [facts[i] EXCEPT !.latest = 0]
        ELSE facts[i]]

\* a mutant: the UPDATE is missing, the new row is only inserted
supersede_nothing(facts, slug, attr) ==
    facts

\* a mutant: the superseded row is overwritten with the marker value as well
supersede_overwrite(facts, slug, attr) ==
    [i \in 1..Len(facts) |->
        IF facts[i].subject_slug = slug /\ facts[i].attr = attr /\ facts[i].latest = 1
        THEN [facts[i] EXCEPT !.latest = 0, !.status = "superseded", !.value = ""]
        ELSE facts[i]]

\* UPDATE facts SET latest=0, status='superseded' WHERE subject_slug=? AND attr=? AND latest=1
supersede(facts, slug, attr) ==
    [i \in 1..Len(facts) |->
        IF facts[i].subject_slug = slug /\ facts[i].attr = attr /\ facts[i].latest = 1
        THEN [facts[i] EXCEPT !.latest = 0, !.status = "superseded"]
        ELSE facts[i]]

\* INSERT INTO facts(...) VALUES(...): AUTOINCREMENT id, no row is ever deleted
insert_fact(facts, a) ==
    Append(facts,
        [id |-> Len(facts) + 1, subject_type |-> "city", subject_slug |-> a.slug,
         attr |-> a.attr, value |-> a.value, source |-> "user", confidence |-> 9,
         status |-> DefaultStatus, latest |-> a.latest])

\* the remember_fact calls begun so far
RememberBegun ==
    Len(calls) + Cardinality({t \in Threads : pc[t] \in {"rf_update", "rf_insert", "rf_commit"}})

\* the log_message calls whose row exists or is under way
LogBegun ==
    Len(db.messages)
    + (IF writer # NoHandle THEN Len(pend.messages) - Len(db.messages) ELSE 0)
    + Cardinality({t \in Threads : pc[t] \in {"lm_select", "lm_insert"}})

\* a returned call with its arguments; a call that raised leaves its mark and `latest`
CallRecord(a, ok) ==
    IF ok
    THEN [slug |-> a.slug, attr |-> a.attr, value |-> a.value, latest |-> a.latest, ok |-> TRUE]
    ELSE [slug |-> <<>>, attr |-> <<>>, value |-> "", latest |-> a.latest, ok |-> FALSE]

\* a fresh database file, no call in progress
StoreInit ==
    /\ db = EmptyTables
    /\ writer = NoHandle
    /\ pend = EmptyTables
    /\ lockOwner = [h \in Handles |-> NoThread]
    /\ pc = [t \in Threads |-> "idle"]
    /\ args = [t \in Threads |-> NoArgs]
    /\ calls = <<>>

\* the slug helpers have not been applied
SlugOff ==
    /\ slugIn = <<>>
    /\ slugOut = <<>>

\* get_pinecone_answer has not been called
GuardOff ==
    /\ gIn = <<>>
    /\ gPc = "off"
    /\ gOut = <<>>

\* retrieve has not been called
CascadeOff ==
    /\ cIn = <<>>
    /\ cPc = "off"
    /\ cCalls = <<>>
    /\ cOut = <<>>

\* the web fallback has not been entered
WebOff ==
    /\ wPc = "off"
    /\ wRun = <<>>
    /\ wOut = <<>>

\* merge_constraints has not been called
MergeOff ==
    /\ mIn = <<>>
    /\ mPc = "off"
    /\ mOut = <<>>

\* the chat loop of talk2 has not started
BufferOff ==
    /\ bBuf = <<>>
    /\ bActive = <<>>
    /\ bTurn = <<>>
    /\ bPushed = <<>>
    /\ bPc = "off"

\* memory_manager has not been called
ManagerOff ==
    /\ mmDb = <<>>
    /\ mmPc = "off"
    /\ mmCalls = <<>>

RestOff ==
    /\ BufferOff
    /\ ManagerOff

\* nothing of the later specifications has started
LaterOff ==
    /\ CascadeOff
    /\ WebOff
    /\ MergeOff
    /\ RestOff

Init ==
    /\ StoreInit
    /\ SlugOff
    /\ GuardOff
    /\ LaterOff

\* remember_fact entered: arguments bound, `with self._lock` acquired
remember_fact_call(t) ==
    /\ pc[t] = "idle"
    /\ RememberBegun < MaxCalls
    /\ \E h \in HandlesOf(t), sub \in Subjects, at \in Attrs, v \in Values, l \in LatestArgs :
        /\ LockFree(h)
        /\ lockOwner' = [lockOwner EXCEPT ![h] = t]
        /\ args' = [args EXCEPT ![t] =
                      [NoArgs EXCEPT !.h = h, !.slug = subject_slug_city(sub[1], sub[2]),
                                     !.attr = at, !.value = v, !.latest = l]]
    /\ pc' = [pc EXCEPT ![t] = "rf_update"]
    /\ UNCHANGED <<db, writer, pend, calls, slugVars, guardVars, laterVars>>

\* the UPDATE statement; sqlite3 opens the transaction before it
remember_fact_update(t) ==
    /\ pc[t] = "rf_update"
    /\ CanWrite(args[t].h)
    /\ pend' = [View(args[t].h) EXCEPT
                  !.facts = supersede(@, args[t].slug, args[t].attr)]
    /\ writer' = args[t].h
    /\ pc' = [pc EXCEPT ![t] = "rf_insert"]
    /\ UNCHANGED <<db, lockOwner, args, calls, slugVars, guardVars, laterVars>>

\* the UPDATE raises "database is locked": another connection holds the write lock
remember_fact_update_busy(t) ==
    /\ pc[t] = "rf_update"
    /\ ~CanWrite(args[t].h)
    /\ lockOwner' = [lockOwner EXCEPT ![args[t].h] = NoThread]
    /\ calls' = Append(calls, CallRecord(args[t], FALSE))
    /\ pc' = [pc EXCEPT ![t] = "idle"]
    /\ args' = [args EXCEPT ![t] = NoArgs]
    /\ UNCHANGED <<db, writer, pend, slugVars, guardVars, laterVars>>

\* the INSERT statement
remember_fact_insert(t) ==
    /\ pc[t] = "rf_insert"
    /\ pend' = [pend EXCEPT !.facts = insert_fact(@, args[t])]
    /\ pc' = [pc EXCEPT ![t] = "rf_commit"]
    /\ UNCHANGED <<db, writer, lockOwner, args, calls, slugVars, guardVars, laterVars>>

\* the INSERT raises (disk full, I/O error, unbindable value). No handler in
\* remember_fact: the exception leaves `with self._lock`, nothing rolls back. SQLite
\* undoes the failed statement alone, or on some errors the whole transaction.
remember_fact_insert_raises(t) ==
    /\ pc[t] = "rf_insert"
    /\ \/ UNCHANGED <<writer, pend>>
       \/ /\ writer' = NoHandle
          /\ pend' = db
    /\ lockOwner' = [lockOwner EXCEPT ![args[t].h] = NoThread]
    /\ calls' = Append(calls, CallRecord(args[t], FALSE))
    /\ pc' = [pc EXCEPT ![t] = "idle"]
    /\ args' = [args EXCEPT ![t] = NoArgs]
    /\ UNCHANGED <<db, slugVars, guardVars, laterVars>>

\* self._conn.commit(), return cur.lastrowid, lock released
remember_fact_commit(t) ==
    /\ pc[t] = "rf_commit"
    /\ db' = pend
    /\ writer' = NoHandle
    /\ pend' = pend
    /\ lockOwner' = [lockOwner EXCEPT ![args[t].h] = NoThread]
    /\ calls' = Append(calls, CallRecord(args[t], TRUE))
    /\ pc' = [pc EXCEPT ![t] = "idle"]
    /\ args' = [args EXCEPT ![t] = NoArgs]
    /\ UNCHANGED <<slugVars, guardVars, laterVars>>

\* self._conn.commit() raises (the file is busy or full): the transaction stays open
\* on the connection with both statements pending, the lock is released
remember_fact_commit_raises(t) ==
    /\ pc[t] = "rf_commit"
    /\ lockOwner' = [lockOwner EXCEPT ![args[t].h] = NoThread]
    /\ calls' = Append(calls, CallRecord(args[t], FALSE))
    /\ pc' = [pc EXCEPT ![t] = "idle"]
    /\ args' = [args EXCEPT ![t] = NoArgs]
    /\ UNCHANGED <<db, writer, pend, slugVars, guardVars, laterVars>>

\* SELECT COALESCE(MAX(turn_index), -1) + 1 FROM messages WHERE session_id=?
next_turn_index(messages, session) ==
    LET own == {messages[i].turn_index : i \in {j \in 1..Len(messages) : messages[j].session_id = session}}
    IN  IF own = {} THEN 0 ELSE (CHOOSE m \in own : \A x \in own : x <= m) + 1

\* log_message entered, lock acquired: a call on one of `sessions` with one of
\* `turnargs`, while fewer than `max` messages were begun
log_message_begin(t, sessions, turnargs, max) ==
    /\ pc[t] = "idle"
    /\ LogBegun < max
    /\ \E h \in HandlesOf(t), s \in sessions, ta \in turnargs :
        /\ LockFree(h)
        /\ lockOwner' = [lockOwner EXCEPT ![h] = t]
        /\ args' = [args EXCEPT ![t] =
                      [NoArgs EXCEPT !.h = h, !.session = s, !.given = ta.given, !.turn = ta.turn]]
        /\ pc' = [pc EXCEPT ![t] = IF ta.given THEN "lm_insert" ELSE "lm_select"]
    /\ UNCHANGED <<db, writer, pend, calls, slugVars, guardVars, laterVars>>

\* log_message entered, in a run that also remembers facts
log_message_call(t) ==
    log_message_begin(t, Sessions, TurnArgs, MaxMsgs)

\* turn_index is None: read the next index
log_message_select(t) ==
    /\ pc[t] = "lm_select"
    /\ args' = [args EXCEPT ![t].turn = next_turn_index(View(args[t].h).messages, args[t].session)]
    /\ pc' = [pc EXCEPT ![t] = "lm_insert"]
    /\ UNCHANGED <<db, writer, pend, lockOwner, calls, slugVars, guardVars, laterVars>>

\* INSERT INTO messages(...)
log_message_insert(t) ==
    /\ pc[t] = "lm_insert"
    /\ CanWrite(args[t].h)
    /\ pend' = [View(args[t].h) EXCEPT
                  !.messages = Append(@, [id |-> Len(@) + 1, session_id |-> args[t].session,
                                          turn_index |-> args[t].turn,
                                          auto |-> ~args[t].given])]
    /\ writer' = args[t].h
    /\ pc' = [pc EXCEPT ![t] = "lm_commit"]
    /\ UNCHANGED <<db, lockOwner, args, calls, slugVars, guardVars, laterVars>>

\* the INSERT raises "database is locked"
log_message_insert_busy(t) ==
    /\ pc[t] = "lm_insert"
    /\ ~CanWrite(args[t].h)
    /\ lockOwner' = [lockOwner EXCEPT ![args[t].h] = NoThread]
    /\ pc' = [pc EXCEPT ![t] = "idle"]
    /\ args' = [args EXCEPT ![t] = NoArgs]
    /\ UNCHANGED <<db, writer, pend, calls, slugVars, guardVars, laterVars>>

\* self._conn.commit(): everything pending on the connection becomes durable
log_message_commit(t) ==
    /\ pc[t] = "lm_commit"
    /\ db' = pend
    /\ writer' = NoHandle
    /\ pend' = pend
    /\ lockOwner' = [lockOwner EXCEPT ![args[t].h] = NoThread]
    /\ pc' = [pc EXCEPT ![t] = "idle"]
    /\ args' = [args EXCEPT ![t] = NoArgs]
    /\ UNCHANGED <<calls, slugVars, guardVars, laterVars>>

Next ==
    \E t \in Threads :
        \/ remember_fact_call(t)
        \/ remember_fact_update(t)
        \/ remember_fact_update_busy(t)
        \/ remember_fact_insert(t)
        \/ remember_fact_insert_raises(t)
        \/ remember_fact_commit(t)
        \/ remember_fact_commit_raises(t)
        \/ log_message_call(t)
        \/ log_message_select(t)
        \/ log_message_insert(t)
        \/ log_message_insert_busy(t)
        \/ log_message_commit(t)

Spec ==
    Init /\ [][Next]_vars

-----------------------------------------------------------------------------
(* Reading facts.  get_fact and list_facts run a SELECT on the handle's     *)
(* connection without taking the lock; they are operators on the table the *)
(* connection sees, evaluated in the states where a caller may read.       *)

\* what get_fact returns for no row: None
NoFact ==
    [id |-> 0, subject_type |-> "", subject_slug |-> <<>>, attr |-> <<>>, value |-> "",
     source |-> "", confidence |-> 0, status |-> "", latest |-> 0]

\* a mutant: ORDER BY id, ascending
RowBefore_id_asc(a, b) ==
    \/ StrLess(a.subject_slug, b.subject_slug)
    \/ /\ a.subject_slug = b.subject_slug
       /\ \/ StrLess(a.attr, b.attr)
          \/ a.attr = b.attr /\ a.id < b.id

\* ORDER BY subject_slug, attr, id DESC
RowBefore(a, b) ==
    \/ StrLess(a.subject_slug, b.subject_slug)
    \/ /\ a.subject_slug = b.subject_slug
       /\ \/ StrLess(a.attr, b.attr)
          \/ a.attr = b.attr /\ a.id > b.id

RECURSIVE order_rows(_)
order_rows(S) ==
    IF S = {} THEN <<>>
    ELSE LET first == CHOOSE r \in S : \A o \in S \ {r} : RowBefore(r, o)
         IN  <<first>> \o order_rows(S \ {first})

\* SELECT ... WHERE subject_slug=? AND attr=? [AND latest=1] ORDER BY id DESC LIMIT 1
get_fact(facts, slug, attr, active_only) ==
    LET S == {i \in 1..Len(facts) :
                /\ facts[i].subject_slug = slug
                /\ facts[i].attr = attr
                /\ active_only => facts[i].latest = 1}
    IN  IF S = {} THEN NoFact ELSE facts[CHOOSE i \in S : \A j \in S : j <= i]

\* a mutant: active_only no longer adds `latest=1`
list_facts_all_versions(facts, slug, attr, active_only) ==
    order_rows({facts[i] : i \in {j \in 1..Len(facts) :
                    /\ Truthy(slug) => facts[j].subject_slug = slug
                    /\ Truthy(attr) => facts[j].attr = attr}})

\* the WHERE clause is built from the arguments that are truthy
list_facts(facts, slug, attr, active_only) ==
    order_rows({facts[i] : i \in {j \in 1..Len(facts) :
                    /\ Truthy(slug) => facts[j].subject_slug = slug
                    /\ Truthy(attr) => facts[j].attr = attr
                    /\ active_only => facts[j].latest = 1}})

-----------------------------------------------------------------------------
(* Properties of the fact store.                                           *)

Slugs ==
    {subject_slug_city(sub[1], sub[2]) : sub \in Subjects}

Keys ==
    Slugs \X Attrs

\* the row numbers of a key in a facts table (a row's id is its number)
KeyRows(facts, k) ==
    {i \in 1..Len(facts) : facts[i].subject_slug = k[1] /\ facts[i].attr = k[2]}

LatestRows(facts, k) ==
    {i \in KeyRows(facts, k) : facts[i].latest = 1}

Newest(rows) ==
    CHOOSE i \in rows : \A j \in rows : j <= i

\* the facts tables that exist: the file's, and the open transaction's
FactTables ==
    {db.facts, pend.facts}

\* no call is in progress
Quiescent ==
    \A t \in Threads : pc[t] = "idle"

\* a thread has executed its UPDATE and has neither committed nor raised
MidRemember(t) ==
    pc[t] \in {"rf_insert", "rf_commit"}

\* C1: after every remember_fact, and in fact in every state, each
\* (subject_slug, attr) pair has at most one row with latest = 1, in the database
\* file and in every connection's view of it.
C1_AtMostOneLatest ==
    \A facts \in FactTables, k \in Keys : Cardinality(LatestRows(facts, k)) <= 1

\* a key holds two committed versions, the older one superseded
C1_Witness ==
    \E k \in Keys :
        /\ Cardinality(KeyRows(db.facts, k)) = 2
        /\ Cardinality(LatestRows(db.facts, k)) = 1

\* C2 (as claimed, for calls that use the default latest = 1): when no call is in
\* progress, get_fact on any handle returns the newest row of the pair, and None
\* only when the pair has no row.
C2_GetLatestReturnsNewest ==
    (Quiescent /\ \A i \in 1..Len(calls) : calls[i].latest = 1)
    => \A h \in Handles, k \in Keys :
         LET facts == View(h).facts
             rows  == KeyRows(facts, k)
         IN  IF rows = {}
             THEN get_fact(facts, k[1], k[2], TRUE) = NoFact
             ELSE get_fact(facts, k[1], k[2], TRUE) = facts[Newest(rows)]

\* C3: two remember_fact calls are never both between their UPDATE and their
\* commit, on one handle or on two, and the file never holds two latest rows
\* for a key.
C3_RemembersNeverInterleave ==
    /\ \A t1, t2 \in Threads : (t1 # t2 /\ MidRemember(t1)) => ~MidRemember(t2)
    /\ \A k \in Keys : Cardinality(LatestRows(db.facts, k)) <= 1

\* two calls for one key are in progress on two handles: one holds the file's
\* write lock after its UPDATE, the other stands before its UPDATE
C3_Witness ==
    \E t1, t2 \in Threads :
        /\ pc[t1] = "rf_insert" /\ pc[t2] = "rf_update"
        /\ args[t1].h # args[t2].h
        /\ args[t1].slug = args[t2].slug /\ args[t1].attr = args[t2].attr
        /\ KeyRows(db.facts, <<args[t1].slug, args[t1].attr>>) = {}

\* C4 (as claimed): the database file never shows a partial supersede: the newest
\* row of a key, the one that was latest before a failed remember_fact, is not
\* marked superseded.
C4_NoPartialSupersede ==
    \A k \in Keys :
        LET rows == KeyRows(db.facts, k)
        IN  rows # {} => db.facts[Newest(rows)].status # "superseded"

\* C5: in the database file no fact row disappears, no row changes its id,
\* subject_type, subject_slug, attr, value, source or confidence, and a row
\* whose latest is 0 stays at 0.
C5_FactsOnlySuperseded ==
    [][\A i \in 1..Len(db.facts) :
          /\ i <= Len(db'.facts)
          /\ db'.facts[i].id = db.facts[i].id
          /\ db'.facts[i].subject_type = db.facts[i].subject_type
          /\ db'.facts[i].subject_slug = db.facts[i].subject_slug
          /\ db'.facts[i].attr = db.facts[i].attr
          /\ db'.facts[i].value = db.facts[i].value
          /\ db'.facts[i].source = db.facts[i].source
          /\ db'.facts[i].confidence = db.facts[i].confidence
          /\ db.facts[i].latest = 0 => db'.facts[i].latest = 0]_vars

\* a committed row has been superseded by a committed newer one
C5_Witness ==
    \E i, j \in 1..Len(db.facts) :
        /\ i < j
        /\ db.facts[i].status = "superseded"
        /\ db.facts[j].subject_slug = db.facts[i].subject_slug
        /\ db.facts[j].attr = db.facts[i].attr

\* the two calls of the scenario have returned, and nothing else was called
C6_Scenario ==
    /\ Quiescent
    /\ calls = <<[slug |-> grandview_tx, attr |-> mayor, value |-> "Bill Houston",
                  latest |-> 1, ok |-> TRUE],
                 [slug |-> grandview_tx, attr |-> mayor, value |-> "Tommy Brandt",
                  latest |-> 1, ok |-> TRUE]>>

\* C6 (as claimed): after the scenario the first row list_facts returns is the
\* superseded one.
C6_FirstListedIsSuperseded ==
    C6_Scenario
    => \A h \in Handles :
         LET rows == list_facts(View(h).facts, grandview_tx, mayor, FALSE)
         IN  /\ get_fact(View(h).facts, grandview_tx, mayor, TRUE).value = "Tommy Brandt"
             /\ Len(rows) = 2
             /\ rows[1].status = "superseded" /\ rows[1].latest = 0

\* C6 (amended): after the scenario get_fact returns "Tommy Brandt" and list_facts
\* returns 2 rows, newest first: the first is the latest row "Tommy Brandt", the
\* second is "Bill Houston" with status superseded and latest = 0.
C6_SecondListedIsSuperseded ==
    C6_Scenario
    => \A h \in Handles :
         LET rows == list_facts(View(h).facts, grandview_tx, mayor, FALSE)
         IN  /\ get_fact(View(h).facts, grandview_tx, mayor, TRUE).value = "Tommy Brandt"
             /\ Len(rows) = 2
             /\ rows[1].value = "Tommy Brandt" /\ rows[1].latest = 1
             /\ rows[1].status = DefaultStatus
             /\ rows[2].value = "Bill Houston" /\ rows[2].latest = 0
             /\ rows[2].status = "superseded"

C6_Witness ==
    C6_Scenario /\ Len(db.facts) = 2 /\ writer = NoHandle

\* the filters a caller may pass
SlugFilters ==
    Slugs \cup {None, <<>>}

AttrFilters ==
    Attrs \cup {None, <<>>}

\* the order the claim states: subject_slug, attr, then id descending
InClaimedOrder(a, b) ==
    \/ StrLess(a.subject_slug, b.subject_slug)
    \/ a.subject_slug = b.subject_slug /\ StrLess(a.attr, b.attr)
    \/ a.subject_slug = b.subject_slug /\ a.attr = b.attr /\ a.id > b.id

IsOrdered(rows) ==
    \A i, j \in 1..Len(rows) : i < j => InClaimedOrder(rows[i], rows[j])

Range(seq) ==
    {seq[i] : i \in 1..Len(seq)}

\* C7 (as claimed): every filter that is passed, the empty string included,
\* restricts the result to the rows that carry it.
C7_ListFactsMatchesSuppliedFilters ==
    \A facts \in FactTables, slug \in SlugFilters, attr \in AttrFilters, active \in BOOLEAN :
        LET rows == list_facts(facts, slug, attr, active)
        IN  /\ Range(rows) = {facts[i] : i \in {j \in 1..Len(facts) :
                                /\ slug # None => facts[j].subject_slug = slug
                                /\ attr # None => facts[j].attr = attr
                                /\ active => facts[j].latest = 1}}
            /\ IsOrdered(rows)

\* C7 (amended): list_facts returns, each once, exactly the rows that match the
\* non-empty subject_slug and attr filters (None and the empty string both mean
\* no filter), only latest rows when active_only, ordered by
\* (subject_slug, attr, id descending).
C7_ListFactsMatchesNonEmptyFilters ==
    \A facts \in FactTables, slug \in SlugFilters, attr \in AttrFilters, active \in BOOLEAN :
        LET rows == list_facts(facts, slug, attr, active)
            want == {i \in 1..Len(facts) :
                        /\ (slug # None /\ slug # <<>>) => facts[i].subject_slug = slug
                        /\ (attr # None /\ attr # <<>>) => facts[i].attr = attr
                        /\ active => facts[i].latest = 1}
        IN  /\ Range(rows) = {facts[i] : i \in want}
            /\ Len(rows) = Cardinality(want)
            /\ IsOrdered(rows)

\* two versions of one key are committed: id order and listing order differ
C7_Witness ==
    /\ Len(db.facts) = 2
    /\ db.facts[1].subject_slug = db.facts[2].subject_slug
    /\ db.facts[1].attr = db.facts[2].attr
    /\ list_facts(db.facts, None, None, FALSE) = <<db.facts[2], db.facts[1]>>

\* C8 (as claimed): no fact row has an empty subject_slug, since remember_fact
\* rejects such a key before any write.
C8_EmptySlugRejected ==
    \A facts \in FactTables :
        \A i \in 1..Len(facts) : facts[i].subject_slug # <<>>

-----------------------------------------------------------------------------
(* The slug of a subject where a fact is stored and where it is looked up. *)

ElPaso ==
    <<"E", "l", " ", "P", "a", "s", "o">>

SubjectTypes ==
    {"city", "generic"}

\* subject names as the parsers hand them over: original, lowered, padded
SlugNames ==
    {Grandview, Lower(Grandview), <<" ">> \o Grandview \o <<" ">>, ElPaso}

\* the state of a subject: absent, empty, blank, and spellings of one state
SlugStates ==
    {None, <<>>, <<" ">>, TX, Lower(TX), <<" ">> \o Lower(TX) \o <<"\t">>}

\* one subject as parsed from the assertion (name, state) and as parsed from
\* the later question (name2, state2)
SlugInputs ==
    [subject_type : SubjectTypes,
     name : SlugNames, state : SlugStates,
     name2 : SlugNames, state2 : SlugStates]

InitSlug ==
    /\ StoreInit
    /\ GuardOff
    /\ LaterOff
    /\ slugIn \in SlugInputs
    /\ slugOut = [slug1 |-> None, slug2 |-> None, stored |-> None, lookup |-> None]

\* _slugify_city_state applied to both spellings
slugify_spellings ==
    /\ slugOut.slug1 = None
    /\ slugOut' = [slugOut EXCEPT
                      !.slug1 = slugify_city_state(slugIn.name, slugIn.state),
                      !.slug2 = slugify_city_state(slugIn.name2, slugIn.state2)]
    /\ UNCHANGED <<storeVars, guardVars, laterVars, slugIn>>

\* the chat loop derives the key it hands to remember_fact
talk_slug ==
    /\ slugOut.stored = None
    /\ slugOut' = [slugOut EXCEPT
                      !.stored = subject_slug_city(slugIn.name, slugIn.state)]
    /\ UNCHANGED <<storeVars, guardVars, laterVars, slugIn>>

\* get_structured_fact derives the key it hands to get_fact
get_structured_fact_slug ==
    /\ slugOut.lookup = None
    /\ Truthy(slugIn.name2)
    /\ slugOut' = [slugOut EXCEPT
                      !.lookup = structured_slug(slugIn.subject_type,
                                                 slugIn.name2, slugIn.state2)]
    /\ UNCHANGED <<storeVars, guardVars, laterVars, slugIn>>

NextSlug ==
    \/ slugify_spellings
    \/ talk_slug
    \/ get_structured_fact_slug

SpecSlug ==
    InitSlug /\ [][NextSlug]_vars

\* two texts that differ only in letter case or surrounding whitespace
SameText(a, b) ==
    Lower(Strip(a)) = Lower(Strip(b))

\* two optional texts: both absent, or both given and the same text
SameOptional(a, b) ==
    \/ a = None /\ b = None
    \/ a # None /\ b # None /\ SameText(a, b)

SameSubject ==
    /\ SameText(slugIn.name, slugIn.name2)
    /\ SameOptional(slugIn.state, slugIn.state2)

\* C9 (as claimed): the slug of ("Grandview", "TX") and of ("grandview", "tx")
\* is "grandview_tx"; two spellings of one subject that differ only in letter
\* case or surrounding whitespace get the identical slug; and the key under
\* which a fact of a subject is remembered equals the key later derived to
\* look it up.
C9_SlugStableAndKeysAgree ==
    /\ slugify_city_state(Grandview, TX) = grandview_tx
    /\ slugify_city_state(Lower(Grandview), Lower(TX)) = grandview_tx
    /\ (slugOut.slug1 # None /\ SameSubject) => slugOut.slug1 = slugOut.slug2
    /\ (slugOut.stored # None /\ slugOut.lookup # None /\ SameSubject)
            => slugOut.stored = slugOut.lookup

-----------------------------------------------------------------------------
(* The semantic stage: get_pinecone_answer and its contamination guard.    *)

\* matches returned by one index query
MaxMatches ==
    2

\* similarity scores are counted in hundredths; a mean is a pair <<sum, count>>
PINECONE_SCORE_THRESH ==
    80

curated_types ==
    {"fact", "session_summary"}

\* the canned replies the fallback branch drops (compared in lower case)
LowInfoPatterns ==
    {<<"i", " ", "c", "u", "r", "r", "e", "n", "t", "l", "y", " ", "d",
        "o", " ", "n", "o", "t", " ", "h", "a", "v", "e">>,
     <<"i", " ", "d", "o", " ", "n", "o", "t", " ", "h", "a", "v", "e",
        " ", "i", "n", "f", "o", "r", "m", "a", "t", "i", "o", "n">>}

MayorOfGrandview ==
    <<"M", "a", "y", "o", "r", " ", "o", "f", " ", "G", "r", "a", "n", "d",
      "v", "i", "e", "w">>

BudgetTalk ==
    <<"B", "u", "d", "g", "e", "t", " ", "t", "a", "l", "k">>

RoadWorks ==
    <<"R", "o", "a", "d", " ", "w", "o", "r", "k", "s">>

GrandviewBudget ==
    <<"G", "r", "a", "n", "d", "v", "i", "e", "w", " ", "b", "u", "d", "g",
      "e", "t">>

NoInformation ==
    <<"I", " ", "d", "o", " ", "n", "o", "t", " ", "h", "a", "v", "e", " ",
      "i", "n", "f", "o", "r", "m", "a", "t", "i", "o", "n">>

\* a metadata key that is missing
NoTitle ==
    "no-title"

\* the records of the index: id, metadata type/text/summary/title, score
IndexRecords ==
    {[id |-> "f1", type |-> "fact", text |-> MayorOfGrandview, summary |-> None,
      title |-> NoTitle, score |-> 90],
     [id |-> "f2", type |-> "fact", text |-> RoadWorks, summary |-> None,
      title |-> NoTitle, score |-> 60],
     [id |-> "s1", type |-> "session_summary", text |-> None, summary |-> BudgetTalk,
      title |-> "Session summary", score |-> 70],
     [id |-> "t1", type |-> "turn", text |-> GrandviewBudget, summary |-> None,
      title |-> NoTitle, score |-> 85],
     [id |-> "t2", type |-> "turn", text |-> NoInformation, summary |-> None,
      title |-> NoTitle, score |-> 95],
     [id |-> "t3", type |-> "turn", text |-> RoadWorks, summary |-> None,
      title |-> NoTitle, score |-> 60]}

\* what index.query returns: distinct records, best score first
MatchLists ==
    {ms \in UNION {[1..n -> IndexRecords] : n \in 0..MaxMatches} :
        \A i, j \in 1..Len(ms) :
            i < j => /\ ms[i].id # ms[j].id
                     /\ ms[i].score >= ms[j].score}

\* constraint values as the extraction returns them (JSON)
StrV(s) ==
    [kind |-> "str", s |-> s]

NumV ==
    [kind |-> "num"]

DictV(name, title) ==
    [kind |-> "dict", name |-> name, title |-> title]

ListV(items) ==
    [kind |-> "list", items |-> items]

\* the values of a constraint dict, in its order
ConstraintDicts ==
    {<<>>,
     <<StrV(Grandview)>>,
     <<NumV>>,
     <<StrV(<<>>), ListV(<<NumV, DictV(None, None)>>)>>,
     <<ListV(<<StrV(mayor), DictV(<<>>, TX)>>), NumV>>,
     <<DictV(budget, None)>>}

RECURSIVE ConcatAll(_)
ConcatAll(seqs) ==
    IF seqs = <<>> THEN <<>> ELSE Head(seqs) \o ConcatAll(Tail(seqs))

\* item.get("name") or item.get("title")
name_or_title(d) ==
    IF Truthy(d.name) THEN d.name ELSE d.title

\* the tokens a str or a dict contributes; other values contribute none
item_tokens(v) ==
    IF v.kind = "str" THEN <<Lower(v.s)>>
    ELSE IF v.kind = "dict" /\ name_or_title(v) # None
         THEN <<Lower(name_or_title(v))>>
         ELSE <<>>

value_tokens(v) ==
    IF v.kind = "list"
    THEN ConcatAll([i \in 1..Len(v.items) |-> item_tokens(v.items[i])])
    ELSE item_tokens(v)

constraint_tokens(constraints) ==
    LET toks == ConcatAll([i \in 1..Len(constraints) |-> value_tokens(constraints[i])])
        NonEmpty(t) == t # <<>>
    IN  SelectSeq(toks, NonEmpty)

\* a mutant: every text passes the token test
text_matches_tokens_any(text, tokens) ==
    TRUE

text_matches_tokens(text, tokens) ==
    IF tokens = <<>> THEN TRUE
    ELSE \E i \in 1..Len(tokens) : Contains(Lower(text), tokens[i])

\* metadata.get("text") or ""
text_of(m) ==
    IF Truthy(m.text) THEN m.text ELSE <<>>

\* metadata.get("text") or metadata.get("summary", "")
text_or_summary(m) ==
    IF Truthy(m.text) THEN m.text
    ELSE IF m.summary # None THEN m.summary
    ELSE <<>>

\* a mutant: no reply counts as canned
is_low_info_never(m) ==
    FALSE

\* a canned "I do not know" reply
is_low_info(m) ==
    \E p \in LowInfoPatterns : Contains(Lower(text_of(m)), p)

\* a mutant: the raw results are kept next to the curated ones
curated_with_raw(matches) ==
    LET Kept(m) == m.type \in curated_types \/ ~is_low_info(m)
    IN  SelectSeq(matches, Kept)

\* the matches the guard goes on with: the curated ones, or, when there is
\* none, the others without the canned replies
curated(matches) ==
    LET IsCurated(m) == m.type \in curated_types
        IsFallback(m) == m.type \notin curated_types /\ ~is_low_info(m)
    IN  IF SelectSeq(matches, IsCurated) # <<>>
        THEN SelectSeq(matches, IsCurated)
        ELSE SelectSeq(matches, IsFallback)

relevant(matches, constraints) ==
    LET tokens == constraint_tokens(constraints)
        Hit(m) == text_matches_tokens(text_or_summary(m), tokens)
    IN  SelectSeq(curated(matches), Hit)

RECURSIVE SumScores(_)
SumScores(ms) ==
    IF ms = <<>> THEN 0 ELSE Head(ms).score + SumScores(Tail(ms))

\* "\n".join(items)
RECURSIVE JoinLines(_)
JoinLines(items) ==
    IF items = <<>> THEN <<>>
    ELSE IF Len(items) = 1 THEN items[1]
    ELSE items[1] \o <<"\n">> \o JoinLines(Tail(items))

\* return None, 0.0, []
Miss ==
    [context |-> None, score |-> <<0, 1>>, sources |-> <<>>]

\* a mutant: the score is the mean over every match the query returned
guarded_answer_mean_of_all(matches, constraints) ==
    LET used == relevant(matches, constraints)
    IN  IF matches = <<>> \/ curated(matches) = <<>> \/ used = <<>>
        THEN Miss
        ELSE [context |-> JoinLines([i \in 1..Len(used) |-> text_or_summary(used[i])]),
              score |-> <<SumScores(matches), Len(matches)>>,
              sources |-> [i \in 1..Len(used) |->
                              IF used[i].title # NoTitle THEN used[i].title
                              ELSE used[i].id]]

\* get_pinecone_answer from the query's matches on
guarded_answer(matches, constraints) ==
    LET used == relevant(matches, constraints)
    IN  IF matches = <<>> \/ curated(matches) = <<>> \/ used = <<>>
        THEN Miss
        ELSE [context |-> JoinLines([i \in 1..Len(used) |-> text_or_summary(used[i])]),
              score |-> <<SumScores(used), Len(used)>>,
              sources |-> [i \in 1..Len(used) |->
                              IF used[i].title # NoTitle THEN used[i].title
                              ELSE used[i].id]]

GuardInputs ==
    [constraints : ConstraintDicts, matches : MatchLists]

NoRoute ==
    "none"

InitGuard ==
    /\ StoreInit
    /\ SlugOff
    /\ LaterOff
    /\ gIn \in GuardInputs
    /\ gPc = "embed"
    /\ gOut = [answer |-> Miss, route |-> NoRoute]

\* openai.embeddings.create returned a vector
get_pinecone_answer_embed ==
    /\ gPc = "embed"
    /\ gPc' = "query"
    /\ UNCHANGED <<storeVars, slugVars, laterVars, gIn, gOut>>

\* openai.embeddings.create raised
get_pinecone_answer_embed_raises ==
    /\ gPc = "embed"
    /\ gPc' = "ret_embed"
    /\ gOut' = [gOut EXCEPT !.answer = Miss]
    /\ UNCHANGED <<storeVars, slugVars, laterVars, gIn>>

\* index.query raised
get_pinecone_answer_query_raises ==
    /\ gPc = "query"
    /\ gPc' = "ret_query"
    /\ gOut' = [gOut EXCEPT !.answer = Miss]
    /\ UNCHANGED <<storeVars, slugVars, laterVars, gIn>>

\* index.query returned its matches: partition, filter, average, return
get_pinecone_answer_guard ==
    /\ gPc = "query"
    /\ gPc' = "ret_guard"
    /\ gOut' = [gOut EXCEPT !.answer = guarded_answer(gIn.matches, gIn.constraints)]
    /\ UNCHANGED <<storeVars, slugVars, laterVars, gIn>>

\* the chat loop: answer from memory, or fall back to the web
main_route ==
    /\ gPc \in {"ret_embed", "ret_query", "ret_guard"}
    /\ gPc' = "routed"
    /\ gOut' = [gOut EXCEPT !.route =
                   IF /\ gOut.answer.score[1] >= PINECONE_SCORE_THRESH * gOut.answer.score[2]
                      /\ Truthy(gOut.answer.context)
                   THEN "memory" ELSE "web"]
    /\ UNCHANGED <<storeVars, slugVars, laterVars, gIn>>

NextGuard ==
    \/ get_pinecone_answer_embed
    \/ get_pinecone_answer_embed_raises
    \/ get_pinecone_answer_query_raises
    \/ get_pinecone_answer_guard
    \/ main_route

SpecGuard ==
    InitGuard /\ [][NextGuard]_vars

\* the claim's tokens of the active constraints, and the results left after
\* the curated / canned-reply filtering
ActiveTokens ==
    constraint_tokens(gIn.constraints)

Survivors ==
    curated(gIn.matches)

NoSurvivorHasToken ==
    \A i \in 1..Len(Survivors) : \A k \in 1..Len(ActiveTokens) :
        ~Contains(Lower(text_or_summary(Survivors[i])), ActiveTokens[k])

PoisonedTurns ==
    {i \in 1..Len(gIn.matches) :
        /\ gIn.matches[i].type = "turn"
        /\ Contains(Lower(text_of(gIn.matches[i])), Lower(NoInformation))}

\* C11: a stored turn whose text contains "I do not have information" is never
\* among the results get_pinecone_answer returns as context and sources,
\* whatever its score and whatever was returned with it.
C11_PoisonedTurnNeverSurfaces ==
    gPc \in {"ret_embed", "ret_query", "ret_guard", "routed"}
        => \A i \in PoisonedTurns :
             /\ gIn.matches[i].id \notin Range(gOut.answer.sources)
             /\ gOut.answer.context # text_of(gIn.matches[i])

\* the best match is such a turn, and the guard answers from another turn
C11_Witness ==
    /\ gPc = "ret_guard"
    /\ 1 \in PoisonedTurns
    /\ Len(gIn.matches) = 2
    /\ gOut.answer.sources = <<gIn.matches[2].id>>

\* the matches whose record type is fact or session_summary
CuratedOnly ==
    LET IsCurated(m) == m.type \in curated_types
    IN  SelectSeq(gIn.matches, IsCurated)

\* C12: when the query returned at least one fact or session_summary, every
\* source of the answer is such a record, and context, sources and score are
\* what they would be had the query returned no raw result at all.
C12_CuratedOnlyWhenPresent ==
    (gPc = "ret_guard" /\ CuratedOnly # <<>>)
        => /\ gOut.answer = guarded_answer(CuratedOnly, gIn.constraints)
           /\ \A k \in 1..Len(gOut.answer.sources) :
                \E i \in 1..Len(CuratedOnly) :
                    gOut.answer.sources[k] \in {CuratedOnly[i].id, CuratedOnly[i].title}

\* a fact and a raw turn both hold a token of the constraints, the turn has the
\* better or equal score, and only the fact is answered from
C12_Witness ==
    /\ gPc = "ret_guard"
    /\ Len(gIn.matches) = 2
    /\ Len(CuratedOnly) = 1
    /\ ActiveTokens # <<>>
    /\ \A i \in 1..2 : text_matches_tokens(text_or_summary(gIn.matches[i]), ActiveTokens)
    /\ gOut.answer.sources = <<CuratedOnly[1].id>>

-----------------------------------------------------------------------------
(* The retrieval cascade of the chat loop: retrieve and step 3.            *)

NoType ==
    "absent"

\* QueryConstraints(other={}): every field None
NoConstraints ==
    [subject_type |-> NoType, subject_name |-> None, state |-> None, attribute |-> None]

\* what extract_constraints hands over: nothing parsed; a parsed sentence, of
\* which only `attr` is a key the dict has; the "who is the .. of .., ST" pattern
QueryShapes ==
    {NoConstraints, [NoConstraints EXCEPT !.attribute = mayor]}
    \cup {[subject_type |-> "city", subject_name |-> n, state |-> TX, attribute |-> a] :
            n \in {Grandview, ElPaso}, a \in {mayor}}
    \cup {[subject_type |-> "city", subject_name |-> Grandview, state |-> TX,
           attribute |-> budget]}

\* the facts table when the turn starts: empty, one fact, a superseded and a latest fact
StoredFacts ==
    LET bill == [slug |-> grandview_tx, attr |-> mayor, value |-> "Bill Houston", latest |-> 1]
        tommy == [bill EXCEPT !.value = "Tommy Brandt"]
    IN  {<<>>,
         insert_fact(<<>>, bill),
         insert_fact(supersede(insert_fact(<<>>, bill), grandview_tx, mayor), tommy)}

\* Optional[List[Dict]]: None, an empty list, a list of hits
NoResult ==
    [some |-> FALSE, hits |-> <<>>]

AdapterResults ==
    {NoResult, [some |-> TRUE, hits |-> <<>>], [some |-> TRUE, hits |-> <<"hit">>]}

\* `if sem_hits:`, `if web_hits:`
has_hits(result) ==
    result.some /\ result.hits # <<>>

\* a mutant: the structured fact is never taken for a hit
found_never(fact) ==
    FALSE

\* `if fact:`, `if fetched:`
found(fact) ==
    fact # NoFact

\* get_structured_fact: no lookup without subject and attribute
get_structured_fact(qc, facts) ==
    IF ~(Truthy(qc.subject_name) /\ Truthy(qc.attribute))
    THEN NoFact
    ELSE get_fact(facts,
                  structured_slug(qc.subject_type, qc.subject_name, qc.state),
                  qc.attribute, TRUE)

CascadeInputs ==
    [qc : QueryShapes, facts : StoredFacts, sem : AdapterResults, web : AdapterResults]

NoReply ==
    [kind |-> "none", value |-> ""]

InitCascade ==
    /\ StoreInit
    /\ RestOff
    /\ SlugOff
    /\ GuardOff
    /\ WebOff
    /\ MergeOff
    /\ cIn \in CascadeInputs
    /\ cPc = "structured"
    /\ cCalls = <<>>
    /\ cOut = [fetched |-> NoFact, response |-> NoReply]

\* stage 1: the structured lookup, and the return on a hit
retrieve_structured ==
    /\ cPc = "structured"
    /\ LET fact == get_structured_fact(cIn.qc, cIn.facts)
       IN  /\ cCalls' = Append(cCalls, [stage |-> "structured", hit |-> found(fact)])
           /\ IF found(fact)
              THEN cPc' = "returned" /\ cOut' = [cOut EXCEPT !.fetched = fact]
              ELSE cPc' = "semantic" /\ UNCHANGED cOut
    /\ UNCHANGED <<storeVars, slugVars, guardVars, webVars, mergeVars, restVars, cIn>>

\* stage 1 raises: Memory(settings) or the SELECT fails; retrieve has no handler
\* and neither has the chat loop
retrieve_structured_raises ==
    /\ cPc = "structured"
    /\ Truthy(cIn.qc.subject_name) /\ Truthy(cIn.qc.attribute)
    /\ cCalls' = Append(cCalls, [stage |-> "structured", hit |-> FALSE])
    /\ cPc' = "raised"
    /\ UNCHANGED <<storeVars, slugVars, guardVars, webVars, mergeVars, restVars, cIn, cOut>>

\* stage 2: semantic_search; a hit returns the placeholder None
retrieve_semantic ==
    /\ cPc = "semantic"
    /\ cCalls' = Append(cCalls, [stage |-> "semantic", hit |-> has_hits(cIn.sem)])
    /\ cPc' = IF has_hits(cIn.sem) THEN "returned" ELSE "web"
    /\ UNCHANGED <<storeVars, slugVars, guardVars, webVars, mergeVars, restVars, cIn, cOut>>

\* stage 3: web_fallback; with or without hits retrieve returns None
retrieve_web ==
    /\ cPc = "web"
    /\ cCalls' = Append(cCalls, [stage |-> "web", hit |-> has_hits(cIn.web)])
    /\ cPc' = "returned"
    /\ UNCHANGED <<storeVars, slugVars, guardVars, webVars, mergeVars, restVars, cIn, cOut>>

\* step 3 of the chat loop: a sentence from the fetched fact, or the echo
talk_respond ==
    /\ cPc = "returned"
    /\ cPc' = "replied"
    /\ cOut' = [cOut EXCEPT !.response =
                   IF found(cOut.fetched)
                   THEN [kind |-> "fact", value |-> cOut.fetched.value]
                   ELSE [kind |-> "echo", value |-> ""]]
    /\ UNCHANGED <<storeVars, slugVars, guardVars, webVars, mergeVars, restVars, cIn, cCalls>>

NextCascade ==
    \/ retrieve_structured
    \/ retrieve_structured_raises
    \/ retrieve_semantic
    \/ retrieve_web
    \/ talk_respond

SpecCascade ==
    InitCascade /\ [][NextCascade]_vars

StageOrder ==
    <<"structured", "semantic", "web">>

\* C13: the stages invoked in a turn are an initial part of structured, semantic,
\* web, each invoked once; a stage is invoked only when every stage before it
\* missed; and when the store holds a latest fact for the subject and attribute
\* asked, the semantic and the web stage are never invoked.
C13_CascadeShortCircuits ==
    /\ Len(cCalls) <= Len(StageOrder)
    /\ \A i \in 1..Len(cCalls) :
        /\ cCalls[i].stage = StageOrder[i]
        /\ \A j \in 1..(i - 1) : ~cCalls[j].hit
    /\ (Len(cCalls) >= 1 /\ cCalls[1].hit) => Len(cCalls) = 1
    /\ (cPc = "replied" /\ get_structured_fact(cIn.qc, cIn.facts) # NoFact)
        => /\ cCalls = <<[stage |-> "structured", hit |-> TRUE]>>
           /\ cOut.response.kind = "fact"

\* the turn is answered from the store although both adapters would have hit
C13_Witness ==
    /\ cPc = "replied"
    /\ cCalls = <<[stage |-> "structured", hit |-> TRUE]>>
    /\ has_hits(cIn.sem)
    /\ has_hits(cIn.web)
    /\ cOut.response = [kind |-> "fact", value |-> "Tommy Brandt"]

-----------------------------------------------------------------------------
(* One turn of the chat loop of talk2: memory path, web fallback, write-back. *)

MaxResults ==
    4

WEB_MIN_HIGH_CONF ==
    3

WEB_RELEVANCE_CUTOFF ==
    70

\* the constraints and the index's answer of the turns modelled
TurnInputs ==
    [constraints : {<<StrV(Grandview)>>},
     matches : {ms \in MatchLists :
                    \A i \in 1..Len(ms) : i = 1 /\ ms[i].id \in {"f1", "t2"}}]

\* relevance_score as the evaluation returns it, in hundredths
ScoreValues ==
    {69, 70, 90}

\* findings.sort(key=relevance_score, reverse=True): stable, best first
RECURSIVE sort_findings(_)
sort_findings(fs) ==
    IF fs = <<>> THEN <<>>
    ELSE LET best == CHOOSE i \in 1..Len(fs) :
                        /\ \A j \in 1..Len(fs) : fs[j].score <= fs[i].score
                        /\ \A j \in 1..(i - 1) : fs[j].score < fs[i].score
         IN  <<fs[best]>> \o sort_findings(SubSeq(fs, 1, best - 1)
                                           \o SubSeq(fs, best + 1, Len(fs)))

\* a mutant: the label never looks at single findings
confidence_label_two(high_conf, findings) ==
    IF high_conf >= WEB_MIN_HIGH_CONF THEN "High" ELSE "Low"

\* the confidence label of answer_from_web
confidence_label(high_conf, findings) ==
    IF high_conf >= WEB_MIN_HIGH_CONF THEN "High"
    ELSE IF \E i \in 1..Len(findings) : findings[i].score >= WEB_RELEVANCE_CUTOFF
         THEN "Medium"
         ELSE "Low"

\* findings[:5]
top_sources(findings) ==
    SubSeq(findings, 1, IF Len(findings) < 5 THEN Len(findings) ELSE 5)

NoAnswer ==
    [kind |-> "none", confidence |-> "none", sources |-> <<>>]

\* the locals of answer_from_web before the search
WebIdle ==
    [n |-> 0, texts |-> <<>>, findings |-> <<>>, high_conf |-> 0, stopped |-> FALSE,
     failed |-> {}]

InitTurn ==
    /\ StoreInit
    /\ RestOff
    /\ SlugOff
    /\ CascadeOff
    /\ MergeOff
    /\ gIn \in TurnInputs
    /\ gPc = "embed"
    /\ gOut = [answer |-> Miss, route |-> NoRoute]
    /\ wPc = "idle"
    /\ wRun = WebIdle
    /\ wOut = [answer |-> NoAnswer, stored |-> <<>>]

\* the memory path: the final answer is generated from the context
main_memory_answer ==
    /\ gPc = "routed" /\ gOut.route = "memory" /\ wPc = "idle"
    /\ wPc' = "answered"
    /\ wOut' = [wOut EXCEPT !.answer = [NoAnswer EXCEPT !.kind = "memory",
                                                        !.confidence = "High"]]
    /\ UNCHANGED <<storeVars, slugVars, guardVars, cascadeVars, mergeVars, restVars, wRun>>

\* the memory path: the completion raises and the loop's handler answers
main_memory_answer_raises ==
    /\ gPc = "routed" /\ gOut.route = "memory" /\ wPc = "idle"
    /\ wPc' = "answered"
    /\ wOut' = [wOut EXCEPT !.answer = [NoAnswer EXCEPT !.kind = "memory_error"]]
    /\ UNCHANGED <<storeVars, slugVars, guardVars, cascadeVars, mergeVars, restVars, wRun>>

\* serp_search returned; parse_serp_results left n candidates
serp_search ==
    /\ gPc = "routed" /\ gOut.route = "web" /\ wPc = "idle"
    /\ \E n \in 0..MaxResults :
        /\ wRun' = [wRun EXCEPT !.n = n]
        /\ wPc' = IF n = 0 THEN "score" ELSE "fetch"
    /\ UNCHANGED <<storeVars, slugVars, guardVars, cascadeVars, mergeVars, restVars, wOut>>

\* the search request raises: serp_search returns {} and nothing is parsed
serp_search_raises ==
    /\ gPc = "routed" /\ gOut.route = "web" /\ wPc = "idle"
    /\ wRun' = [wRun EXCEPT !.n = 0, !.failed = @ \cup {"search"}]
    /\ wPc' = "score"
    /\ UNCHANGED <<storeVars, slugVars, guardVars, cascadeVars, mergeVars, restVars, wOut>>

\* serp_search_and_fetch: the text of the next candidate is fetched
fetch_url_text ==
    /\ wPc = "fetch"
    /\ wRun' = [wRun EXCEPT !.texts = Append(@, "text")]
    /\ wPc' = IF Len(wRun.texts) + 1 = wRun.n THEN "score" ELSE "fetch"
    /\ UNCHANGED <<storeVars, slugVars, guardVars, cascadeVars, mergeVars, restVars, wOut>>

\* the request or the HTML parse raises: the candidate's text is ""
fetch_url_text_raises ==
    /\ wPc = "fetch"
    /\ wRun' = [wRun EXCEPT !.texts = Append(@, ""), !.failed = @ \cup {"fetch"}]
    /\ wPc' = IF Len(wRun.texts) + 1 = wRun.n THEN "score" ELSE "fetch"
    /\ UNCHANGED <<storeVars, slugVars, guardVars, cascadeVars, mergeVars, restVars, wOut>>

\* the evaluation loop has a candidate left and has not hit `break`
loop_goes_on ==
    /\ wPc = "score"
    /\ Len(wRun.findings) < wRun.n
    /\ ~wRun.stopped

\* the loop body after the evaluation: append, count, break
collect(run, score) ==
    LET high == IF score >= WEB_RELEVANCE_CUTOFF THEN run.high_conf + 1 ELSE run.high_conf
    IN  [run EXCEPT !.findings = Append(@, [doc |-> Len(run.findings) + 1, score |-> score]),
                    !.high_conf = high,
                    !.stopped = score >= WEB_RELEVANCE_CUTOFF /\ high >= WEB_MIN_HIGH_CONF]

\* evaluate_doc_with_gpt returned a score for the next candidate
evaluate_doc ==
    /\ loop_goes_on
    /\ \E score \in ScoreValues : wRun' = collect(wRun, score)
    /\ UNCHANGED <<storeVars, slugVars, guardVars, cascadeVars, mergeVars, restVars, wPc, wOut>>

\* the completion or its JSON parse raises: evaluate_doc_with_gpt returns score 0.0
evaluate_doc_raises ==
    /\ loop_goes_on
    /\ wRun' = [collect(wRun, 0) EXCEPT !.failed = @ \cup {"score"}]
    /\ UNCHANGED <<storeVars, slugVars, guardVars, cascadeVars, mergeVars, restVars, wPc, wOut>>

\* a mutant: no handler around the web fallback
main_web_uncaught ==
    /\ loop_goes_on
    /\ wRun' = [wRun EXCEPT !.failed = @ \cup {"score"}]
    /\ wPc' = "aborted"
    /\ UNCHANGED <<storeVars, slugVars, guardVars, cascadeVars, mergeVars, restVars, wOut>>

\* the evaluation's relevance_score is no number: float() raises inside
\* answer_from_web and the loop's handler gives the canned reply
main_web_except ==
    /\ loop_goes_on
    /\ wRun' = [wRun EXCEPT !.failed = @ \cup {"score"}]
    /\ wPc' = "answered"
    /\ wOut' = [wOut EXCEPT !.answer = [NoAnswer EXCEPT !.kind = "web_error"]]
    /\ UNCHANGED <<storeVars, slugVars, guardVars, cascadeVars, mergeVars, restVars>>

\* what answer_from_web returns once the answer text is there
web_result(kind, run) ==
    [kind |-> kind,
     confidence |-> confidence_label(run.high_conf, sort_findings(run.findings)),
     sources |-> top_sources(sort_findings(run.findings))]

\* the loop is over: sort, synthesize, label, sources, trace, return
synthesize_answer ==
    /\ wPc = "score" /\ ~loop_goes_on
    /\ wPc' = "answered"
    /\ wOut' = [wOut EXCEPT !.answer = web_result("synthesized", wRun)]
    /\ UNCHANGED <<storeVars, slugVars, guardVars, cascadeVars, mergeVars, restVars, wRun>>

\* the synthesis raises: its handler returns the canned sentence
synthesize_answer_raises ==
    /\ wPc = "score" /\ ~loop_goes_on
    /\ wPc' = "answered"
    /\ wRun' = [wRun EXCEPT !.failed = @ \cup {"synthesis"}]
    /\ wOut' = [wOut EXCEPT !.answer = web_result("not_synthesized", wRun)]
    /\ UNCHANGED <<storeVars, slugVars, guardVars, cascadeVars, mergeVars, restVars>>

\* what extract_facts_from_turn may hand to store_facts
ExtractedFacts ==
    {<<>>,
     <<[entity_name |-> Grandview, attribute |-> mayor, value |-> "Bill Houston",
        confidence |-> 30, source_url |-> "absent"]>>}

\* log_turn, extract_facts_from_turn, store_facts: rows go to memory_manager's
\* own facts table and to the index, none through remember_fact
main_store_facts ==
    /\ wPc = "answered"
    /\ wPc' = "done"
    /\ \E facts \in ExtractedFacts : wOut' = [wOut EXCEPT !.stored = facts]
    /\ UNCHANGED <<storeVars, slugVars, guardVars, cascadeVars, mergeVars, restVars, wRun>>

NextTurn ==
    \/ NextGuard
    \/ main_memory_answer
    \/ main_memory_answer_raises
    \/ serp_search
    \/ serp_search_raises
    \/ fetch_url_text
    \/ fetch_url_text_raises
    \/ evaluate_doc
    \/ evaluate_doc_raises
    \/ main_web_except
    \/ synthesize_answer
    \/ synthesize_answer_raises
    \/ main_store_facts

SpecTurn ==
    InitTurn /\ [][NextTurn]_vars

\* the web fallback ran to its return without an exception
WebReturned ==
    /\ wPc \in {"answered", "done"}
    /\ gOut.route = "web"
    /\ wOut.answer.kind \in {"synthesized", "not_synthesized"}

\* the findings at or above the cutoff
HighFindings ==
    {i \in 1..Len(wRun.findings) : wRun.findings[i].score >= WEB_RELEVANCE_CUTOFF}

C14_EarlyStopEndsScoring ==
    (wPc \in {"score", "answered", "done"} /\ wRun.stopped)
        => /\ Cardinality(HighFindings) = WEB_MIN_HIGH_CONF
           /\ Len(wRun.findings) \in HighFindings
           /\ ~loop_goes_on

\* C15: a failure of the embedding or of the index query makes stage 2 a miss
\* and the turn goes on to the web; a failure of the search, of a fetch, of an
\* evaluation or of the synthesis never aborts the turn: a failed search leaves
\* no candidate, the other candidates are still scored after a failed fetch or
\* evaluation, and the turn ends with an answer.
C15_FailuresAreStageMisses ==
    /\ [](gPc \in {"ret_embed", "ret_query"} => gOut.answer = Miss)
    /\ [][(gPc \in {"ret_embed", "ret_query"} /\ gPc' = "routed")
            => gOut'.route = "web"]_vars
    /\ [](wPc # "aborted")
    /\ []("search" \in wRun.failed => wRun.n = 0 /\ wRun.findings = <<>>)
    /\ [](WebReturned
            => \/ Len(wRun.findings) = wRun.n /\ Len(wRun.texts) = wRun.n
               \/ wRun.stopped)
    /\ [](wPc \in {"answered", "done"} => wOut.answer.kind # "none")

\* a turn that ended although a fetch, an evaluation and the synthesis failed
C15_Witness ==
    /\ wPc = "done"
    /\ wRun.failed = {"fetch", "score", "synthesis"}
    /\ wRun.n = MaxResults
    /\ wOut.answer.kind = "not_synthesized"

\* C16 (as claimed): a turn in which the memory path missed and the web stage
\* obtained no finding does not answer with a synthesized text.
C16_NoFindingGivesNoAnswer ==
    (WebReturned /\ wRun.findings = <<>>) => wOut.answer.kind # "synthesized"

\* C17 (as claimed): when the turn has stored a fact taken from its answer, the
\* facts table of the fact store holds a latest row for that subject and
\* attribute, filed with the source of the stage that answered.
C17_ResolvedFactIsRemembered ==
    (wPc = "done" /\ wOut.stored # <<>>)
        => \E i \in 1..Len(db.facts) :
            /\ db.facts[i].latest = 1
            /\ db.facts[i].attr = wOut.stored[1].attribute
            /\ db.facts[i].source = gOut.route

\* C18: the label answer_from_web returns is High exactly when the findings at or
\* above the cutoff number the minimum count or more, Medium exactly when there
\* is at least one but fewer than that, and Low exactly when there is none, as
\* when there is no finding at all.
C18_ConfidenceLabel ==
    WebReturned
        => /\ wOut.answer.confidence \in {"High", "Medium", "Low"}
           /\ wOut.answer.confidence = "High"
                <=> Cardinality(HighFindings) >= WEB_MIN_HIGH_CONF
           /\ wOut.answer.confidence = "Medium"
                <=> Cardinality(HighFindings) \in 1..(WEB_MIN_HIGH_CONF - 1)
           /\ wOut.answer.confidence = "Low"
                <=> HighFindings = {}

\* all candidates scored, two of them at or above the cutoff: Medium
C18_Witness ==
    /\ WebReturned
    /\ Len(wRun.findings) = MaxResults
    /\ Cardinality(HighFindings) = 2
    /\ wOut.answer.confidence = "Medium"

-----------------------------------------------------------------------------
(* merge_constraints and _merge_list_safe.                                 *)

MaxItems ==
    2

\* a constraint value: a str, a dict (its pairs in insertion order), None, a
\* list of str and dict items; Absent stands for a key the map does not have
Absent ==
    [kind |-> "absent", s |-> "", pairs |-> <<>>, items |-> <<>>]

NoneVal ==
    [Absent EXCEPT !.kind = "none"]

StrVal(s) ==
    [Absent EXCEPT !.kind = "str", !.s = s]

DictVal(pairs) ==
    [Absent EXCEPT !.kind = "dict", !.pairs = pairs]

ListVal(items) ==
    [Absent EXCEPT !.kind = "list", !.items = items]

\* the keys of the record items, in sort_keys order
PairKeys ==
    <<"entity_type", "name">>

\* {name, entity_type} records: one entity written in both key orders
EntityRecords ==
    {DictVal(<<[k |-> "name", v |-> "Grandview"], [k |-> "entity_type", v |-> "city"]>>),
     DictVal(<<[k |-> "entity_type", v |-> "city"], [k |-> "name", v |-> "Grandview"]>>)}

MergeItems ==
    {StrVal("flood"), StrVal("housing")} \cup EntityRecords

MergeLists ==
    UNION {[1..n -> MergeItems] : n \in 0..MaxItems}

\* the values of the key "topics"
TopicValues ==
    {Absent, NoneVal, StrVal(""), StrVal("flood"), StrVal("housing")}
    \cup {CHOOSE d \in EntityRecords : d.pairs[1].k = "name"}
    \cup {ListVal(items) : items \in MergeLists}

MergeKeys ==
    {"topics", "location"}

ConstraintMaps ==
    {[k \in MergeKeys |-> IF k = "topics" THEN t ELSE l] :
        t \in TopicValues, l \in {Absent, StrVal("TX")}}

\* `not base`, `if new`: the map has no key
is_empty_map(m) ==
    \A k \in MergeKeys : m[k] = Absent

\* `if existing`: truthiness of a value that is no list
truthy_value(v) ==
    \/ v.kind = "str" /\ v.s # ""
    \/ v.kind = "dict" /\ v.pairs # <<>>

\* json.dumps(item, sort_keys=True): the pairs in key order
sort_keys(pairs) ==
    LET At(key) == {i \in 1..Len(pairs) : pairs[i].k = key}
        Sorted(i) == IF At(PairKeys[i]) = {} THEN <<>>
                     ELSE <<pairs[CHOOSE j \in At(PairKeys[i]) : TRUE]>>
    IN  ConcatAll([i \in 1..Len(PairKeys) |-> Sorted(i)])

\* a mutant: the item itself is the key, and a dict cannot be hashed
keyify_item(item) ==
    [tag |-> "item", s |-> item.s, text |-> item.pairs, hashable |-> item.kind # "dict"]

\* keyify: ("scalar", item) or ("json", text)
keyify(item) ==
    IF item.kind \in {"str", "none"}
    THEN [tag |-> "scalar", s |-> item.s, text |-> <<>>, hashable |-> TRUE]
    ELSE [tag |-> "json", s |-> "", text |-> sort_keys(item.pairs), hashable |-> TRUE]

\* the loop of _merge_list_safe over existing + incoming
RECURSIVE dedupe(_, _, _)
dedupe(todo, seen, out) ==
    IF todo = <<>> THEN [raised |-> FALSE, items |-> out]
    ELSE LET k == keyify(Head(todo))
         IN  IF ~k.hashable THEN [raised |-> TRUE, items |-> <<>>]
             ELSE IF k \in seen THEN dedupe(Tail(todo), seen, out)
             ELSE dedupe(Tail(todo), seen \cup {k}, Append(out, Head(todo)))

merge_list_safe(existing, incoming) ==
    dedupe(existing \o incoming, {}, <<>>)

\* a mutant: a str that meets a different scalar makes a list of the two
merge_value_promote(old, v) ==
    IF v.kind = "absent" THEN [raised |-> FALSE, value |-> old]
    ELSE IF v.kind = "list"
    THEN LET existing == IF old.kind = "list" THEN old.items
                         ELSE IF old.kind = "absent" THEN <<>>
                         ELSE IF truthy_value(old) THEN <<old>>
                         ELSE <<>>
             merged == merge_list_safe(existing, v.items)
         IN  [raised |-> merged.raised, value |-> ListVal(merged.items)]
    ELSE IF v.kind = "str" /\ old.kind = "list"
    THEN [raised |-> FALSE,
          value |-> IF \E i \in 1..Len(old.items) : old.items[i] = v
                    THEN old ELSE ListVal(Append(old.items, v))]
    ELSE IF v.kind = "str" /\ old.kind \in {"str", "none"} /\ old # v
    THEN [raised |-> FALSE, value |-> ListVal(<<old, v>>)]
    ELSE [raised |-> FALSE, value |-> v]

\* a mutant: a str is appended to a list that already holds it
merge_value_append_always(old, v) ==
    IF v.kind = "absent" THEN [raised |-> FALSE, value |-> old]
    ELSE IF v.kind = "list"
    THEN LET existing == IF old.kind = "list" THEN old.items
                         ELSE IF old.kind = "absent" THEN <<>>
                         ELSE IF truthy_value(old) THEN <<old>>
                         ELSE <<>>
             merged == merge_list_safe(existing, v.items)
         IN  [raised |-> merged.raised, value |-> ListVal(merged.items)]
    ELSE IF v.kind = "str" /\ old.kind = "list"
    THEN [raised |-> FALSE,
          value |-> ListVal(Append(old.items, v))]
    ELSE [raised |-> FALSE, value |-> v]

\* one pass of the loop of merge_constraints: the value of key k afterwards
merge_value(old, v) ==
    IF v.kind = "absent" THEN [raised |-> FALSE, value |-> old]
    ELSE IF v.kind = "list"
    THEN LET existing == IF old.kind = "list" THEN old.items
                         ELSE IF old.kind = "absent" THEN <<>>
                         ELSE IF truthy_value(old) THEN <<old>>
                         ELSE <<>>
             merged == merge_list_safe(existing, v.items)
         IN  [raised |-> merged.raised, value |-> ListVal(merged.items)]
    ELSE IF v.kind = "str" /\ old.kind = "list"
    THEN [raised |-> FALSE,
          value |-> IF \E i \in 1..Len(old.items) : old.items[i] = v
                    THEN old ELSE ListVal(Append(old.items, v))]
    ELSE [raised |-> FALSE, value |-> v]

NoMap ==
    [k \in MergeKeys |-> Absent]

merge_constraints(base, new) ==
    IF is_empty_map(base)
    THEN [raised |-> FALSE, map |-> new]
    ELSE LET per == [k \in MergeKeys |-> merge_value(base[k], new[k])]
         IN  IF \E k \in MergeKeys : per[k].raised
             THEN [raised |-> TRUE, map |-> NoMap]
             ELSE [raised |-> FALSE, map |-> [k \in MergeKeys |-> per[k].value]]

\* the base map as the call leaves it: merged = dict(base) copies the map but not
\* its lists, and merged[k].append(v) appends to the list the base holds
base_after(base, new) ==
    IF is_empty_map(base) THEN base
    ELSE [k \in MergeKeys |->
            IF /\ new[k].kind = "str"
               /\ base[k].kind = "list"
               /\ ~\E i \in 1..Len(base[k].items) : base[k].items[i] = new[k]
            THEN ListVal(Append(base[k].items, new[k]))
            ELSE base[k]]

MergeInputs ==
    [base : ConstraintMaps, new : ConstraintMaps]

InitMerge ==
    /\ StoreInit
    /\ RestOff
    /\ SlugOff
    /\ GuardOff
    /\ CascadeOff
    /\ WebOff
    /\ mIn \in MergeInputs
    /\ mPc = "call"
    /\ mOut = [raised |-> FALSE, map |-> NoMap, base |-> mIn.base, new |-> mIn.new]

\* merge_constraints(base, new) is called and returns or raises
merge_constraints_call ==
    /\ mPc = "call"
    /\ mPc' = "returned"
    /\ LET result == merge_constraints(mIn.base, mIn.new)
       IN  mOut' = [raised |-> result.raised, map |-> result.map,
                    base |-> base_after(mIn.base, mIn.new), new |-> mIn.new]
    /\ UNCHANGED <<storeVars, slugVars, guardVars, cascadeVars, webVars, restVars, mIn>>

NextMerge ==
    merge_constraints_call

SpecMerge ==
    InitMerge /\ [][NextMerge]_vars

\* C19: merge_constraints does not raise, whatever the shapes of the two maps,
\* and every key of the base or of the incoming map is a key of the result.
C19_MergeTotal ==
    mPc = "returned"
        => /\ ~mOut.raised
           /\ \A k \in MergeKeys :
                (mIn.base[k] # Absent \/ mIn.new[k] # Absent) => mOut.map[k] # Absent

\* a record in the base under a key for which a list of records comes in, next
\* to a key that only the base has
C19_Witness ==
    /\ mPc = "returned"
    /\ mIn.base["topics"].kind = "dict"
    /\ mIn.base["location"] # Absent
    /\ mIn.new["location"] = Absent
    /\ mIn.new["topics"].kind = "list"
    /\ \E i \in 1..Len(mIn.new["topics"].items) : mIn.new["topics"].items[i].kind = "dict"
    /\ mOut.map["topics"].kind = "list"
    /\ mOut.map["location"] = mIn.base["location"]

\* deep equality of two items: same str, or dicts with the same pairs in any order
deep_equal(a, b) ==
    /\ a.kind = b.kind
    /\ a.s = b.s
    /\ Range(a.pairs) = Range(b.pairs)

\* the items of `incoming` not deep-equal to an item of `present`; with
\* among_themselves, also not to an earlier item kept
RECURSIVE not_yet_present(_, _, _)
not_yet_present(incoming, present, among_themselves) ==
    IF incoming = <<>> THEN <<>>
    ELSE LET item == Head(incoming)
             there == \E i \in 1..Len(present) : deep_equal(present[i], item)
         IN  IF there
             THEN not_yet_present(Tail(incoming), present, among_themselves)
             ELSE <<item>> \o not_yet_present(Tail(incoming),
                                IF among_themselves THEN Append(present, item) ELSE present,
                                among_themselves)

\* the case C20 is about: a list comes in, the base has a list or nothing there
ListMeetsList ==
    /\ mPc = "returned"
    /\ mIn.new["topics"].kind = "list"
    /\ mIn.base["topics"].kind \in {"list", "absent"}

\* C20 (as claimed): when a list comes in for a key under which the base has a
\* list or nothing, the merged value is the base list followed by the incoming
\* items not already present, presence tested by deep equality, whether or not
\* "already present" counts the incoming items taken before.
C20_MergedIsBaseThenNewItems ==
    ListMeetsList
        => /\ ~mOut.raised
           /\ mOut.map["topics"].kind = "list"
           /\ \E among_themselves \in BOOLEAN :
                mOut.map["topics"].items =
                    mIn.base["topics"].items
                    \o not_yet_present(mIn.new["topics"].items,
                                       mIn.base["topics"].items, among_themselves)

\* str and None: the values that are neither list nor dict
Scalars ==
    {"str", "none"}

\* C21: when base and incoming both hold a scalar under a key, the merged value
\* of that key is the incoming scalar.
C21_ScalarOverridesScalar ==
    mPc = "returned"
        => \A k \in MergeKeys :
            (mIn.base[k].kind \in Scalars /\ mIn.new[k].kind \in Scalars)
                => ~mOut.raised /\ mOut.map[k] = mIn.new[k]

\* "flood" in the base, "housing" coming in
C21_Witness ==
    /\ mPc = "returned"
    /\ mIn.base["topics"] = StrVal("flood")
    /\ mIn.new["topics"] = StrVal("housing")
    /\ mOut.map["topics"] = StrVal("housing")

\* C22 (as claimed): a str coming in for a key under which the base holds a
\* different scalar gives the list of the base scalar and the str.
C22_ScalarPromotedToList ==
    mPc = "returned"
        => \A k \in MergeKeys :
            (mIn.base[k].kind \in Scalars /\ mIn.new[k].kind = "str"
                    /\ mIn.base[k] # mIn.new[k])
                => mOut.map[k] = ListVal(<<mIn.base[k], mIn.new[k]>>)

\* C22 (amended): a str coming in for a key under which the base holds a list
\* is appended to that list unless the list holds it already; under a key for
\* which the base holds a scalar the str replaces the scalar and no list is made.
C22_StrJoinsListOnly ==
    mPc = "returned"
        => \A k \in MergeKeys :
            mIn.new[k].kind = "str"
                => /\ mIn.base[k].kind = "list"
                        => mOut.map[k] =
                            IF mIn.new[k] \in Range(mIn.base[k].items)
                            THEN mIn.base[k]
                            ELSE ListVal(Append(mIn.base[k].items, mIn.new[k]))
                   /\ mIn.base[k].kind \in Scalars => mOut.map[k] = mIn.new[k]

\* "housing" joins a list that holds "flood" and a record
C22_Witness ==
    /\ mPc = "returned"
    /\ mIn.new["topics"] = StrVal("housing")
    /\ mIn.base["topics"].kind = "list"
    /\ Len(mIn.base["topics"].items) = 2
    /\ mIn.base["topics"].items[1] = StrVal("flood")
    /\ mIn.base["topics"].items[2].kind = "dict"
    /\ Len(mOut.map["topics"].items) = 3

\* C23 (as claimed): the call leaves both arguments as they were.
C23_MergeIsPure ==
    mPc = "returned" => mOut.base = mIn.base /\ mOut.new = mIn.new

\* ---------------------------------------------------------------------------
\* The conversation buffer of the chat loop (archive/talk2.py)
\* ---------------------------------------------------------------------------

\* BUFFER_MAX_TURNS: the deque's maxlen
BUFFER_MAX_TURNS ==
    12

\* pushes of one run of the loop: more than the buffer holds
MaxPushes ==
    14

\* the intents classify_interaction returns
Intents ==
    {"chat", "followup", "fact_lookup"}

\* the maps extract_constraints_with_gpt returns for a turn
TurnConstraints ==
    {NoMap,
     [NoMap EXCEPT !["topics"] = StrVal("housing")],
     [NoMap EXCEPT !["topics"] = ListVal(<<StrVal("flood")>>)],
     [NoMap EXCEPT !["location"] = StrVal("TX")]}

\* the topics of the latest session summary
SummaryTopics ==
    {<<>>, <<StrVal("flood")>>}

NoTurn ==
    [intent |-> "none", constraints |-> NoMap]

\* the dict push_buffer builds: text stands as the number of the push, the
\* constraints as whether a map was passed
buffer_entry(role, n, has_constraints, intent) ==
    [role |-> role, text |-> n, constraints |-> has_constraints, intent |-> intent]

\* a mutant: a full deque refuses the new entry
deque_append_keeps_oldest(buf, entry) ==
    IF Len(buf) = BUFFER_MAX_TURNS THEN buf ELSE Append(buf, entry)

\* deque(maxlen=BUFFER_MAX_TURNS).append: a full deque drops its oldest entry
deque_append(buf, entry) ==
    IF Len(buf) = BUFFER_MAX_TURNS THEN Append(Tail(buf), entry) ELSE Append(buf, entry)

\* push_buffer(role, text, constraints, intent)
push_buffer(role, has_constraints, intent) ==
    LET entry == buffer_entry(role, Len(bPushed) + 1, has_constraints, intent)
    IN  /\ Len(bPushed) < MaxPushes
        /\ bBuf' = deque_append(bBuf, entry)
        /\ bPushed' = Append(bPushed, entry)

InitBuffer ==
    /\ StoreInit
    /\ SlugOff
    /\ GuardOff
    /\ CascadeOff
    /\ WebOff
    /\ MergeOff
    /\ ManagerOff
    /\ bBuf = <<>>
    /\ bActive = NoMap
    /\ bTurn = NoTurn
    /\ bPushed = <<>>
    /\ bPc = "seed"

\* seed_buffer_from_last_session: no summary is stored
seed_buffer_none ==
    /\ bPc = "seed"
    /\ bPc' = "user"
    /\ UNCHANGED <<storeVars, slugVars, guardVars, cascadeVars, webVars, mergeVars,
                   managerVars, bBuf, bActive, bTurn, bPushed>>

\* seed_buffer_from_last_session: the summary is pushed as an assistant entry
seed_buffer_push ==
    /\ bPc = "seed"
    /\ push_buffer("assistant", TRUE, "session_summary")
    /\ bPc' = "seeded"
    /\ UNCHANGED <<storeVars, slugVars, guardVars, cascadeVars, webVars, mergeVars,
                   managerVars, bActive, bTurn>>

\* seed_buffer_from_last_session: active_context is set from the summary
seed_buffer_active ==
    /\ bPc = "seeded"
    /\ \E topics \in SummaryTopics :
          bActive' = [NoMap EXCEPT !["topics"] = ListVal(topics)]
    /\ bPc' = "user"
    /\ UNCHANGED <<storeVars, slugVars, guardVars, cascadeVars, webVars, mergeVars,
                   managerVars, bBuf, bTurn, bPushed>>

\* the loop: push_buffer("user", user_input)
main_push_user ==
    /\ bPc = "user"
    /\ push_buffer("user", FALSE, "none")
    /\ bPc' = "classify"
    /\ UNCHANGED <<storeVars, slugVars, guardVars, cascadeVars, webVars, mergeVars,
                   managerVars, bActive, bTurn>>

\* a mutant: every turn that inherits is merged with active_context
merges_context_any(intent, inherits) ==
    inherits

\* if intent_type in ("followup", "fact_lookup") and inherits
merges_context(intent, inherits) ==
    intent \in {"followup", "fact_lookup"} /\ inherits

\* a mutant: active_context is updated after every turn
updates_context_always(intent) ==
    TRUE

\* if intent_type in ("fact_lookup", "followup")
updates_context(intent) ==
    intent \in {"fact_lookup", "followup"}

\* the loop: classify_interaction, extract_constraints_with_gpt, and the merge
\* with active_context of a turn that inherits
main_constraints ==
    /\ bPc = "classify"
    /\ \E intent \in Intents, inherits \in BOOLEAN, c \in TurnConstraints :
          LET merges == merges_context(intent, inherits)
              merged == merge_constraints(bActive, c)
          IN  IF merges /\ merged.raised
              THEN /\ bPc' = "crashed"
                   /\ UNCHANGED <<bActive, bTurn>>
              ELSE /\ bTurn' = [intent |-> intent,
                                constraints |-> IF merges THEN merged.map ELSE c]
                   /\ bActive' = IF merges THEN base_after(bActive, c) ELSE bActive
                   /\ bPc' = "answer"
    /\ UNCHANGED <<storeVars, slugVars, guardVars, cascadeVars, webVars, mergeVars,
                   managerVars, bBuf, bPushed>>

\* the loop: push_buffer("assistant", answer_text, constraints, intent_type)
main_push_assistant ==
    /\ bPc = "answer"
    /\ push_buffer("assistant", TRUE, bTurn.intent)
    /\ bPc' = "update"
    /\ UNCHANGED <<storeVars, slugVars, guardVars, cascadeVars, webVars, mergeVars,
                   managerVars, bActive, bTurn>>

\* the loop: active_context = merge_constraints(active_context, constraints)
main_update_active ==
    /\ bPc = "update"
    /\ LET merged == merge_constraints(bActive, bTurn.constraints)
       IN  IF updates_context(bTurn.intent)
           THEN IF merged.raised
                THEN bPc' = "crashed" /\ UNCHANGED bActive
                ELSE bActive' = merged.map /\ bPc' = "user"
           ELSE bPc' = "user" /\ UNCHANGED bActive
    /\ bTurn' = NoTurn
    /\ UNCHANGED <<storeVars, slugVars, guardVars, cascadeVars, webVars, mergeVars,
                   managerVars, bBuf, bPushed>>

NextBuffer ==
    \/ seed_buffer_none
    \/ seed_buffer_push
    \/ seed_buffer_active
    \/ main_push_user
    \/ main_constraints
    \/ main_push_assistant
    \/ main_update_active

SpecBuffer ==
    InitBuffer /\ [][NextBuffer]_vars

\* the most recent min(n, capacity) entries of a push history, in push order
most_recent(pushed) ==
    LET n == Len(pushed)
        kept == IF n < BUFFER_MAX_TURNS THEN n ELSE BUFFER_MAX_TURNS
    IN  SubSeq(pushed, n - kept + 1, n)

\* C24: the buffer never holds more than its capacity, it is at every moment the
\* most recent min(n, capacity) of the n entries pushed, in push order, and a
\* step that pushes an entry leaves active_context as it was.
C24_BufferKeepsMostRecent ==
    /\ [](Len(bBuf) <= BUFFER_MAX_TURNS /\ bBuf = most_recent(bPushed))
    /\ [][bPushed' # bPushed => bActive' = bActive /\ bTurn' = bTurn]_vars

\* C24 witness: more entries were pushed than the buffer holds, the oldest is
\* gone, and active_context holds something the pushes did not touch
C24_Witness ==
    /\ Len(bPushed) > BUFFER_MAX_TURNS
    /\ Len(bBuf) = BUFFER_MAX_TURNS
    /\ bBuf[1].text = Len(bPushed) - BUFFER_MAX_TURNS + 1
    /\ bActive # NoMap

\* ---------------------------------------------------------------------------
\* The transcript of a session: Memory.log_message and get_recent_messages
\* ---------------------------------------------------------------------------

\* messages begun in one run
MaxLogs ==
    3

LogSessions ==
    {1, 2}

\* the turn_index argument: None, or the explicit index of a caller
LogTurnArgs ==
    {[given |-> FALSE, turn |-> 0]} \cup {[given |-> TRUE, turn |-> n] : n \in 0..2}

\* log_message entered, in a run that only appends messages
log_message_enter(t) ==
    log_message_begin(t, LogSessions, LogTurnArgs, MaxLogs)

\* turns logged through memory_manager in one run
MaxTurns ==
    2

Roles ==
    {"user", "assistant"}

\* the tables of memory_manager's database, empty after _init_db
EmptyManager ==
    [sessions |-> <<>>, turns |-> <<>>, entities |-> <<>>, links |-> {},
     watchlist |-> <<>>, facts |-> <<>>]

\* memory_manager.log_turn: one row into conversation_turns on a connection of
\* its own, committed; the embedding goes to the vector index
log_turn ==
    /\ Len(mmDb.turns) < MaxTurns
    /\ \E s \in LogSessions, role \in Roles :
          mmDb' = [mmDb EXCEPT !.turns =
                      Append(@, [id |-> Len(@) + 1, session_id |-> s, role |-> role])]
    /\ UNCHANGED <<storeVars, slugVars, guardVars, cascadeVars, webVars, mergeVars,
                   bufferVars, mmPc, mmCalls>>

InitLog ==
    /\ StoreInit
    /\ SlugOff
    /\ GuardOff
    /\ CascadeOff
    /\ WebOff
    /\ MergeOff
    /\ BufferOff
    /\ mmDb = EmptyManager
    /\ mmPc = "idle"
    /\ mmCalls = <<>>

NextLog ==
    \/ \E t \in Threads :
            \/ log_message_enter(t)
            \/ log_message_select(t)
            \/ log_message_insert(t)
            \/ log_message_insert_busy(t)
            \/ log_message_commit(t)
    \/ log_turn

SpecLog ==
    InitLog /\ [][NextLog]_vars

\* the first n elements of a sequence (LIMIT n)
take_rows(rows, n) ==
    SubSeq(rows, 1, IF n < Len(rows) THEN n ELSE Len(rows))

\* [::-1], reversed()
reversed(rows) ==
    [i \in 1..Len(rows) |-> rows[Len(rows) + 1 - i]]

\* ORDER BY turn_index DESC: every order of the rows the clause allows; rows of
\* equal turn_index come in an order SQLite does not fix
order_by_turn_index_desc(rows) ==
    LET n == Len(rows)
        orders == {o \in [1..n -> 1..n] :
                      /\ \A i, j \in 1..n : i # j => o[i] # o[j]
                      /\ \A i, j \in 1..n :
                            i < j => rows[o[i]].turn_index >= rows[o[j]].turn_index}
    IN  {[i \in 1..n |-> rows[o[i]]] : o \in orders}

\* a mutant: the rows are returned as selected, newest first
get_recent_messages_newest_first(messages, s, limit) ==
    LET rows == SelectSeq(messages, LAMBDA m : m.session_id = s)
    IN  {take_rows(o, limit) : o \in order_by_turn_index_desc(rows)}

\* Memory.get_recent_messages: the lists the call can return
get_recent_messages(messages, s, limit) ==
    LET rows == SelectSeq(messages, LAMBDA m : m.session_id = s)
    IN  {reversed(take_rows(o, limit)) : o \in order_by_turn_index_desc(rows)}

\* memory_manager.get_session_turns: WHERE session_id=? ORDER BY id ASC
get_session_turns(turns, s) ==
    SelectSeq(turns, LAMBDA t : t.session_id = s)

\* memory_manager.get_session_recent_turns: ORDER BY id DESC LIMIT ?, reversed
get_session_recent_turns(turns, s, limit) ==
    reversed(take_rows(reversed(get_session_turns(turns, s)), limit))

\* the committed rows of a session, in the order they were inserted
session_rows(s) ==
    SelectSeq(db.messages, LAMBDA m : m.session_id = s)

\* every stored message of the session was appended without a turn_index
AllAuto(s) ==
    \A i \in 1..Len(session_rows(s)) : session_rows(s)[i].auto

\* C25 (as claimed): a session whose appends all omitted the index holds the
\* indices 0, 1, 2, ... in append order, whatever other sessions hold.
C25_AutoIndicesCountUp ==
    \A s \in LogSessions :
        AllAuto(s) => \A i \in 1..Len(session_rows(s)) : session_rows(s)[i].turn_index = i - 1

\* C26 (as claimed): two messages of one session that were both appended without
\* an index never carry the same index.
C26_ConcurrentIndicesDiffer ==
    \A s \in LogSessions :
        \A i, j \in 1..Len(session_rows(s)) :
            (i # j /\ session_rows(s)[i].auto /\ session_rows(s)[j].auto)
                => session_rows(s)[i].turn_index # session_rows(s)[j].turn_index

\* C27 (as claimed): within a session a message inserted later carries a
\* strictly greater index than every message inserted before it.
C27_IndicesIncrease ==
    \A s \in LogSessions :
        \A i, j \in 1..Len(session_rows(s)) :
            i < j => session_rows(s)[i].turn_index < session_rows(s)[j].turn_index

\* the rows of `rows` are those of session s with the `limit` highest values of
\* the ordering column among `all`, in ascending order
MostRecentAscending(rows, all, s, limit, col(_)) ==
    LET own == {i \in 1..Len(all) : all[i].session_id = s}
        ids == {rows[i].id : i \in 1..Len(rows)}
    IN  /\ \A i \in 1..Len(rows) : rows[i].session_id = s /\ \E k \in own : all[k] = rows[i]
        /\ Len(rows) = (IF limit < Cardinality(own) THEN limit ELSE Cardinality(own))
        /\ Cardinality(ids) = Len(rows)
        /\ \A i, j \in 1..Len(rows) : i < j => col(rows[i]) <= col(rows[j])
        /\ \A k \in own, i \in 1..Len(rows) : all[k].id \notin ids => col(all[k]) <= col(rows[i])

MaxSessions ==
    2

\* calls of close_session, store_facts and create_watchlist in one run
MaxManagerCalls ==
    3

GRANDVIEW ==
    <<"G", "R", "A", "N", "D", "V", "I", "E", "W">>

Canon ==
    <<"C", "a", "ñ", "o", "n">>

CANON ==
    <<"C", "A", "Ñ", "O", "N">>

EntityNames ==
    {Grandview, GRANDVIEW, Canon, CANON}

\* an action of a summary, as its phrases
monitor_regs ==
    <<"monitor", "chromium regs">>

email_clerk ==
    <<"email", "the clerk">>

\* the JSON the summarizer returns; the last one stands for {} after a failure
FailedSummary ==
    [summary |-> "", entities |-> <<>>, topics |-> <<>>, actions |-> <<>>]

Summaries ==
    {[summary |-> "s1", entities |-> <<Grandview>>, topics |-> <<"flood">>,
      actions |-> <<monitor_regs>>],
     [summary |-> "s2", entities |-> <<GRANDVIEW>>, topics |-> <<>>,
      actions |-> <<email_clerk>>],
     [summary |-> "s3", entities |-> <<Canon, CANON>>, topics |-> <<"housing">>,
      actions |-> <<>>],
     [summary |-> "s4", entities |-> <<>>, topics |-> <<"flood", "housing">>,
      actions |-> <<monitor_regs>>],
     FailedSummary}

\* the facts argument of store_facts, by entity_name ("" is <<>>)
FactLists ==
    {<<>>, <<Grandview>>, <<GRANDVIEW>>, <<Canon, CANON>>, <<<<>>>>}

\* COLLATE NOCASE: the 26 ASCII upper case letters are folded, nothing else
nocase(s) ==
    [i \in 1..Len(s) |-> LowerChar(s[i])]

\* _get_or_create_entity on the tables tb at time ts: the tables and the id
get_or_create_entity(tb, name, ts) ==
    LET hits == {i \in 1..Len(tb.entities) : nocase(tb.entities[i].name) = nocase(name)}
        row == CHOOSE i \in hits : \A j \in hits : i <= j
    IN  IF hits # {}
        THEN [tb |-> [tb EXCEPT !.entities[row].last_touched = ts], id |-> row]
        ELSE [tb |-> [tb EXCEPT !.entities =
                        Append(@, [id |-> Len(@) + 1, name |-> name, last_touched |-> ts])],
              id |-> Len(tb.entities) + 1]

\* _apply_session_entities: every named entity is resolved or created and
\* linked to the session (INSERT OR IGNORE)
RECURSIVE apply_session_entities(_, _, _, _)
apply_session_entities(tb, s, entities, ts) ==
    IF entities = <<>> THEN tb
    ELSE IF Head(entities) = <<>> THEN apply_session_entities(tb, s, Tail(entities), ts)
    ELSE LET e == get_or_create_entity(tb, Head(entities), ts)
         IN  apply_session_entities([e.tb EXCEPT !.links = @ \cup {<<s, e.id>>}],
                                    s, Tail(entities), ts)

\* a mutant: no row is inserted for a topic the watchlist already holds
watchlist_insert_once(tb, topic, entity_name, ts) ==
    LET e == IF entity_name = <<>> THEN [tb |-> tb, id |-> 0]
             ELSE get_or_create_entity(tb, entity_name, ts)
    IN  IF \E i \in 1..Len(tb.watchlist) : tb.watchlist[i].topic = topic
        THEN e.tb
        ELSE [e.tb EXCEPT !.watchlist =
                Append(@, [id |-> Len(@) + 1, topic |-> topic, entity_id |-> e.id,
                           active |-> 1])]

\* create_watchlist on the tables tb: the entity is resolved or created when a
\* name is given, and one row is inserted
watchlist_insert(tb, topic, entity_name, ts) ==
    LET e == IF entity_name = <<>> THEN [tb |-> tb, id |-> 0]
             ELSE get_or_create_entity(tb, entity_name, ts)
    IN  [e.tb EXCEPT !.watchlist =
            Append(@, [id |-> Len(@) + 1, topic |-> topic, entity_id |-> e.id, active |-> 1])]

\* any(word in act.lower() for word in ("monitor", "track", "watch", ...))
implies_tracking(act) ==
    \E i \in 1..Len(act) : act[i] \in {"monitor", "track", "watch", "follow up", "updates"}

\* _apply_session_actions: a watchlist row per action that implies tracking,
\* on the first entity of the summary
RECURSIVE apply_session_actions(_, _, _, _)
apply_session_actions(tb, actions, entities, ts) ==
    IF actions = <<>> THEN tb
    ELSE LET ent_name == IF entities = <<>> THEN <<>> ELSE entities[1]
             next == IF implies_tracking(Head(actions))
                     THEN watchlist_insert(tb, Head(actions), ent_name, ts)
                     ELSE tb
         IN  apply_session_actions(next, Tail(actions), entities, ts)

\* summarize_session with the summarizer's answer js: nothing without turns,
\* else the summary is written and the entities and actions are applied
summarize_session(tb, s, js, ts) ==
    IF get_session_turns(tb.turns, s) = <<>> THEN tb
    ELSE LET written == [tb EXCEPT !.sessions =
                            [i \in 1..Len(@) |-> IF @[i].id = s
                                                 THEN [@[i] EXCEPT !.summary = js.summary,
                                                                  !.entities = js.entities,
                                                                  !.topics = js.topics]
                                                 ELSE @[i]]]
         IN  apply_session_actions(apply_session_entities(written, s, js.entities, ts),
                                   js.actions, js.entities, ts)

\* the time of the next call
Now ==
    Len(mmCalls) + 1

CallOf(op, s, js) ==
    [op |-> op, session |-> s, summary |-> js]

InitManager ==
    /\ StoreInit
    /\ SlugOff
    /\ GuardOff
    /\ CascadeOff
    /\ WebOff
    /\ MergeOff
    /\ BufferOff
    /\ mmDb = EmptyManager
    /\ mmPc = "idle"
    /\ mmCalls = <<>>

\* INSERT INTO sessions (start_ts): end_ts and the summary columns are NULL
sessions_insert(tb) ==
    [tb EXCEPT !.sessions =
        Append(@, [id |-> Len(@) + 1, end_ts |-> 0, summary |-> "",
                   entities |-> None, topics |-> None])]

\* open_session: a new row with start_ts
open_session ==
    /\ Len(mmDb.sessions) < MaxSessions
    /\ mmDb' = sessions_insert(mmDb)
    /\ UNCHANGED <<storeVars, slugVars, guardVars, cascadeVars, webVars, mergeVars,
                   bufferVars, mmPc, mmCalls>>

\* close_session: end_ts is set, then summarize_session runs
close_session ==
    /\ Len(mmCalls) < MaxManagerCalls
    /\ \E s \in LogSessions, js \in Summaries :
          LET ended == [mmDb EXCEPT !.sessions =
                          [i \in 1..Len(@) |-> IF @[i].id = s
                                               THEN [@[i] EXCEPT !.end_ts = Now]
                                               ELSE @[i]]]
          IN  /\ get_session_turns(mmDb.turns, s) = <<>> => js = FailedSummary
              /\ mmDb' = summarize_session(ended, s, js, Now)
              /\ mmCalls' = Append(mmCalls, CallOf("close_session", s, js))
    /\ UNCHANGED <<storeVars, slugVars, guardVars, cascadeVars, webVars, mergeVars,
                   bufferVars, mmPc>>

\* store_facts: per fact the entity is resolved or created and a row inserted
RECURSIVE facts_insert(_, _, _, _)
facts_insert(tb, s, names, ts) ==
    IF names = <<>> THEN tb
    ELSE LET e == IF Head(names) = <<>> THEN [tb |-> tb, id |-> 0]
                  ELSE get_or_create_entity(tb, Head(names), ts)
         IN  facts_insert([e.tb EXCEPT !.facts =
                              Append(@, [id |-> Len(@) + 1, entity_id |-> e.id,
                                         source_session_id |-> s])],
                          s, Tail(names), ts)

store_facts ==
    /\ Len(mmCalls) < MaxManagerCalls
    /\ \E s \in LogSessions, names \in FactLists :
          /\ mmDb' = facts_insert(mmDb, s, names, Now)
          /\ mmCalls' = Append(mmCalls, CallOf("store_facts", s, FailedSummary))
    /\ UNCHANGED <<storeVars, slugVars, guardVars, cascadeVars, webVars, mergeVars,
                   bufferVars, mmPc>>

\* create_watchlist, called for a turn that asks for tracking
create_watchlist ==
    /\ Len(mmCalls) < MaxManagerCalls
    /\ \E entity_name \in {<<>>, Grandview, CANON} :
          /\ mmDb' = watchlist_insert(mmDb, monitor_regs, entity_name, Now)
          /\ mmCalls' = Append(mmCalls, CallOf("create_watchlist", 0, FailedSummary))
    /\ UNCHANGED <<storeVars, slugVars, guardVars, cascadeVars, webVars, mergeVars,
                   bufferVars, mmPc>>

NextManager ==
    \/ open_session
    \/ log_turn
    \/ close_session
    \/ store_facts
    \/ create_watchlist

SpecManager ==
    InitManager /\ [][NextManager]_vars

\* the step closes a session again: the call before it was close_session on
\* the same session and the summarizer answered the same
ClosedAgain ==
    /\ Len(mmCalls') = Len(mmCalls) + 1
    /\ mmCalls # <<>>
    /\ mmCalls'[Len(mmCalls')].op = "close_session"
    /\ mmCalls'[Len(mmCalls')] = mmCalls[Len(mmCalls)]

\* the rows of the entities table without their last_touched
entity_keys(tb) ==
    [i \in 1..Len(tb.entities) |-> <<tb.entities[i].id, tb.entities[i].name>>]

\* C29 (as claimed): a second close of a session leaves the entity rows, the
\* session-entity links and the watchlist rows as the first close left them.
C29_CloseTwiceAddsNothing ==
    [][ClosedAgain => /\ entity_keys(mmDb') = entity_keys(mmDb)
                      /\ mmDb'.links = mmDb.links
                      /\ mmDb'.watchlist = mmDb.watchlist]_vars

\* str.lower() of a name: what "ignoring case" means for text
casefold(s) ==
    [i \in 1..Len(s) |-> IF s[i] = "Ñ" THEN "ñ" ELSE LowerChar(s[i])]

\* C30 (as claimed): no two entity rows carry names that are equal ignoring
\* case.
C30_EntityNamesUniqueIgnoringCase ==
    \A i, j \in 1..Len(mmDb.entities) :
        i # j => casefold(mmDb.entities[i].name) # casefold(mmDb.entities[j].name)

\* what the lookup does guarantee: no two rows equal under the ASCII folding
\* of COLLATE NOCASE
C30_EntityNamesUniqueNocase ==
    \A i, j \in 1..Len(mmDb.entities) :
        i # j => nocase(mmDb.entities[i].name) # nocase(mmDb.entities[j].name)

\* ---------------------------------------------------------------------------
\* The fact store again: what a remember_fact call leaves alone
\* ---------------------------------------------------------------------------

\* the rows of every key but (slug, attr), each with its place in the table
other_rows(facts, slug, attr) ==
    {<<i, facts[i]>> : i \in {j \in DOMAIN facts :
                                ~(facts[j].subject_slug = slug /\ facts[j].attr = attr)}}

\* what the connection of handle h reads after the step
ViewNext(h) ==
    IF writer' = h THEN pend' ELSE db'

\* thread t executes a statement of remember_fact that succeeds: the UPDATE,
\* the INSERT or the commit
RememberStep(t) ==
    \/ pc[t] = "rf_update" /\ pc'[t] = "rf_insert"
    \/ pc[t] = "rf_insert" /\ pc'[t] = "rf_commit"
    \/ pc[t] = "rf_commit" /\ pc'[t] = "idle" /\ calls'[Len(calls')].ok

DefaultCallsOnly ==
    \A i \in 1..Len(calls) : calls[i].ok /\ calls[i].latest = 1

\* C38 (as claimed): while a remember_fact with the default arguments runs on a
\* handle, a get_fact on that handle finds a latest row for the key whenever the
\* key has a row: the state between the UPDATE and the INSERT is never read.
C38_ReadersSeeWholeSupersede ==
    \A t \in Threads :
        (DefaultCallsOnly /\ pc[t] \in {"rf_update", "rf_insert", "rf_commit"}
            /\ args[t].latest = 1)
        => LET facts == View(args[t].h).facts
               k == <<args[t].slug, args[t].attr>>
           IN  KeyRows(facts, k) # {} => get_fact(facts, k[1], k[2], TRUE) # NoFact

\* C39: as long as every call used the default latest and status, in the file
\* and in every connection's view a row is superseded exactly if its latest is
\* 0, and the latest row of a key is the row of the greatest id of that key.
C39_SupersededIffNotLatest ==
    (/\ \A i \in 1..Len(calls) : calls[i].latest = 1
     /\ \A t \in Threads : args[t].latest = 1)
    => \A facts \in FactTables :
         /\ \A i \in 1..Len(facts) : (facts[i].status = "superseded") <=> (facts[i].latest = 0)
         /\ \A k \in Keys : \A i \in LatestRows(facts, k) : i = Newest(KeyRows(facts, k))

\* C39 witness: after two default calls on one key the file holds the first
\* row superseded with latest 0 and the second, of the greater id, latest
C39_Witness ==
    /\ Len(calls) = 2 /\ calls[1].latest = 1 /\ calls[2].latest = 1
    /\ \E k \in Keys :
          /\ KeyRows(db.facts, k) = {1, 2}
          /\ db.facts[1].status = "superseded" /\ db.facts[1].latest = 0
          /\ db.facts[2].status = DefaultStatus /\ db.facts[2].latest = 1

\* ---------------------------------------------------------------------------
\* Merging twice
\* ---------------------------------------------------------------------------

\* Merge(A, B) of the call's arguments as they were passed
MergedOnce ==
    merge_constraints(mIn.base, mIn.new)

\* C40 (as claimed): merging the merged map again, on either side, changes
\* nothing: Merge(A, Merge(A, B)) = Merge(A, B) = Merge(Merge(A, B), B).
C40_MergeTwiceIsMergeOnce ==
    (mPc = "returned" /\ ~MergedOnce.raised)
    => /\ merge_constraints(mIn.base, MergedOnce.map) = MergedOnce
       /\ merge_constraints(MergedOnce.map, mIn.new) = MergedOnce

\* ---------------------------------------------------------------------------
\* The confidence of the semantic stage
\* ---------------------------------------------------------------------------

\* the results that passed the curated / canned-reply filtering and hold a
\* token of the constraints
GuardSurvivors ==
    relevant(gIn.matches, gIn.constraints)

WatchlistCreated ==
    /\ Len(mmCalls') = Len(mmCalls) + 1
    /\ mmCalls'[Len(mmCalls')].op = "create_watchlist"

\* C34: a create_watchlist call adds exactly one row, active and with the
\* call's topic, whether or not the topic is on the list already, and no step
\* removes or changes a row of the watchlist.
C34_WatchlistOnlyGrows ==
    [][/\ Len(mmDb'.watchlist) >= Len(mmDb.watchlist)
       /\ \A i \in 1..Len(mmDb.watchlist) : mmDb'.watchlist[i] = mmDb.watchlist[i]
       /\ WatchlistCreated =>
            /\ Len(mmDb'.watchlist) = Len(mmDb.watchlist) + 1
            /\ mmDb'.watchlist[Len(mmDb'.watchlist)].active = 1
            /\ mmDb'.watchlist[Len(mmDb'.watchlist)].topic = monitor_regs]_vars

\* C34 witness: create_watchlist was called twice with one topic and the list
\* holds an active row for each call
C34_Witness ==
    /\ Len(mmCalls) = 2
    /\ mmCalls[1].op = "create_watchlist" /\ mmCalls[2].op = "create_watchlist"
    /\ Len(mmDb.watchlist) = 2
    /\ mmDb.watchlist[1].topic = mmDb.watchlist[2].topic
    /\ mmDb.watchlist[1].active = 1 /\ mmDb.watchlist[2].active = 1

\* ---------------------------------------------------------------------------
\* The start of a run: main opens a session and seeds the buffer from the
\* stored summaries (talk2.py main, seed_buffer_from_last_session).  Runs
\* follow one another on one database; each run is a new process, with an empty
\* buffer and an empty active_context.
\* ---------------------------------------------------------------------------

\* runs of the program on one database
MaxRuns ==
    3

SeedKeys ==
    {"entities", "topics"}

\* active_context = {} at the start of a process
EmptyContext ==
    [k \in SeedKeys |-> Absent]

\* the result None of get_latest_session_summary
NoSummary ==
    [session_id |-> 0, summary |-> "", entities |-> <<>>, topics |-> <<>>]

\* json.loads(column or "[]")
loads_or_empty(column) ==
    IF column = None THEN <<>> ELSE column

\* the bundle built from a row of sessions
summary_bundle(row) ==
    [session_id |-> row.id, summary |-> row.summary,
     entities |-> loads_or_empty(row.entities), topics |-> loads_or_empty(row.topics)]

\* a mutant: the row is chosen without the test of end_ts
get_latest_session_summary_any(sessions) ==
    LET closed == {i \in 1..Len(sessions) : TRUE}
    IN  IF closed = {} THEN NoSummary
        ELSE summary_bundle(sessions[CHOOSE i \in closed : \A j \in closed : j <= i])

\* SELECT ... FROM sessions WHERE end_ts IS NOT NULL ORDER BY id DESC LIMIT 1
get_latest_session_summary(sessions) ==
    LET closed == {i \in 1..Len(sessions) : sessions[i].end_ts # 0}
    IN  IF closed = {} THEN NoSummary
        ELSE summary_bundle(sessions[CHOOSE i \in closed : \A j \in closed : j <= i])

\* the entry seed_buffer_from_last_session pushes
summary_entry(latest) ==
    [role |-> "assistant",
     text |-> <<"[Prev Session Summary] ",
                IF latest.summary = "" THEN "(no prior summary)" ELSE latest.summary>>,
     constraints |-> [entities |-> latest.entities, topics |-> latest.topics],
     intent |-> "session_summary"]

\* the session main opened in this run
session_id ==
    Len(mmDb.sessions)

InitSeed ==
    /\ StoreInit
    /\ SlugOff
    /\ GuardOff
    /\ CascadeOff
    /\ WebOff
    /\ MergeOff
    /\ mmDb = EmptyManager
    /\ mmPc = "start"
    /\ mmCalls = <<>>
    /\ bBuf = <<>>
    /\ bActive = EmptyContext
    /\ bTurn = NoTurn
    /\ bPushed = <<>>
    /\ bPc = "off"

\* main: session_id = mem.open_session()
main_open_session ==
    /\ mmPc = "start"
    /\ Len(mmDb.sessions) < MaxRuns
    /\ mmDb' = sessions_insert(mmDb)
    /\ mmCalls' = Append(mmCalls, CallOf("open_session", Len(mmDb.sessions) + 1, FailedSummary))
    /\ mmPc' = "seed"
    /\ UNCHANGED <<storeVars, slugVars, guardVars, cascadeVars, webVars, mergeVars,
                   bufferVars>>

\* seed_buffer_from_last_session
seed_buffer_from_last_session ==
    /\ mmPc = "seed"
    /\ LET latest == get_latest_session_summary(mmDb.sessions)
       IN  IF latest = NoSummary
           THEN UNCHANGED <<bBuf, bPushed, bActive>>
           ELSE /\ bBuf' = deque_append(bBuf, summary_entry(latest))
                /\ bPushed' = Append(bPushed, summary_entry(latest))
                /\ bActive' = [k \in SeedKeys |->
                                 IF k = "entities" THEN ListVal(latest.entities)
                                 ELSE ListVal(latest.topics)]
    /\ mmPc' = "loop"
    /\ UNCHANGED <<storeVars, slugVars, guardVars, cascadeVars, webVars, mergeVars,
                   mmDb, mmCalls, bTurn, bPc>>

\* the loop: mem.log_turn(session_id, role, text)
main_log_turn ==
    /\ mmPc = "loop"
    /\ Len(get_session_turns(mmDb.turns, session_id)) < MaxMsgs
    /\ mmDb' = [mmDb EXCEPT !.turns =
                  Append(@, [id |-> Len(@) + 1, session_id |-> session_id, role |-> "user"])]
    /\ UNCHANGED <<storeVars, slugVars, guardVars, cascadeVars, webVars, mergeVars,
                   bufferVars, mmPc, mmCalls>>

\* "exit": mem.close_session(session_id), and the process ends
main_close_session ==
    /\ mmPc = "loop"
    /\ \E js \in Summaries :
          LET ended == [mmDb EXCEPT !.sessions =
                          [i \in 1..Len(@) |-> IF @[i].id = session_id
                                               THEN [@[i] EXCEPT !.end_ts = Now]
                                               ELSE @[i]]]
          IN  /\ get_session_turns(mmDb.turns, session_id) = <<>> => js = FailedSummary
              /\ mmDb' = summarize_session(ended, session_id, js, Now)
              /\ mmCalls' = Append(mmCalls, CallOf("close_session", session_id, js))
    /\ mmPc' = "start"
    /\ bBuf' = <<>> /\ bPushed' = <<>> /\ bActive' = EmptyContext
    /\ UNCHANGED <<storeVars, slugVars, guardVars, cascadeVars, webVars, mergeVars,
                   bTurn, bPc>>

\* the process ends inside the loop without reaching close_session
main_killed ==
    /\ mmPc = "loop"
    /\ mmPc' = "start"
    /\ bBuf' = <<>> /\ bPushed' = <<>> /\ bActive' = EmptyContext
    /\ UNCHANGED <<storeVars, slugVars, guardVars, cascadeVars, webVars, mergeVars,
                   mmDb, mmCalls, bTurn, bPc>>

NextSeed ==
    \/ main_open_session
    \/ seed_buffer_from_last_session
    \/ main_log_turn
    \/ main_close_session
    \/ main_killed

SpecSeed ==
    InitSeed /\ [][NextSeed]_vars

\* the ids of the sessions before the one this run opened that have an end_ts
ClosedPrior ==
    {i \in 1..(Len(mmDb.sessions) - 1) : mmDb.sessions[i].end_ts # 0}

MaxLoopTurns ==
    2

\* the interaction types of the classifier's prompt
InteractionTypes ==
    {"chat", "followup", "fact_lookup", "recall", "command"}

\* answers of detect_watchlist_from_turn: create_watch or not
WatchDecisions ==
    BOOLEAN

\* the maps extract_constraints_with_gpt returns, one with a repeated item
LoopConstraints ==
    TurnConstraints \cup
        {[NoMap EXCEPT !["topics"] = ListVal(<<StrVal("flood"), StrVal("flood")>>)]}

LoopIdle ==
    [intent |-> "none", inherits |-> FALSE, extracted |-> NoMap, constraints |-> NoMap,
     before |-> NoMap, stages |-> <<>>]

InitLoop ==
    /\ StoreInit
    /\ SlugOff
    /\ GuardOff
    /\ CascadeOff
    /\ WebOff
    /\ MergeOff
    /\ mmDb = sessions_insert(EmptyManager)
    /\ mmPc = "loop"
    /\ mmCalls = <<>>
    /\ bBuf = <<>>
    /\ bActive = NoMap
    /\ bTurn = LoopIdle
    /\ bPushed = <<>>
    /\ bPc = "seed"

\* rows of conversation_turns after log_turn(session_id, role, text)
turns_insert(tb, s, role) ==
    [tb EXCEPT !.turns = Append(@, [id |-> Len(@) + 1, session_id |-> s, role |-> role])]

\* the loop: mem.log_turn(session_id, "user", user_input); push_buffer("user", ...)
loop_input ==
    /\ bPc = "user"
    /\ Len(get_session_turns(mmDb.turns, 1)) < 2 * MaxLoopTurns
    /\ mmDb' = turns_insert(mmDb, 1, "user")
    /\ push_buffer("user", FALSE, "none")
    /\ bPc' = "classify"
    /\ UNCHANGED <<storeVars, slugVars, guardVars, cascadeVars, webVars, mergeVars,
                   mmPc, mmCalls, bActive, bTurn>>

\* the loop: classify_interaction, extract_constraints_with_gpt, and the merge
\* with active_context
loop_classify ==
    /\ bPc = "classify"
    /\ \E intent \in InteractionTypes, inherits \in BOOLEAN, c \in LoopConstraints :
          LET merges == merges_context(intent, inherits)
              merged == merge_constraints(bActive, c)
          IN  IF merges /\ merged.raised
              THEN /\ bPc' = "crashed"
                   /\ UNCHANGED <<bActive, bTurn>>
              ELSE /\ bTurn' = [intent |-> intent, inherits |-> inherits, extracted |-> c,
                                constraints |-> IF merges THEN merged.map ELSE c,
                                before |-> bActive, stages |-> <<>>]
                   /\ bActive' = IF merges THEN base_after(bActive, c) ELSE bActive
                   /\ bPc' = "semantic"
    /\ UNCHANGED <<storeVars, slugVars, guardVars, cascadeVars, webVars, mergeVars,
                   managerVars, bBuf, bPushed>>

\* the loop: get_pinecone_answer(user_input, constraints), and whether its score
\* and context let the answer come from memory
loop_semantic ==
    /\ bPc = "semantic"
    /\ bTurn' = [bTurn EXCEPT !.stages =
                    Append(@, [stage |-> "semantic", constraints |-> bTurn.constraints])]
    /\ \E hit \in BOOLEAN : bPc' = IF hit THEN "answer" ELSE "web"
    /\ UNCHANGED <<storeVars, slugVars, guardVars, cascadeVars, webVars, mergeVars,
                   managerVars, bBuf, bActive, bPushed>>

\* the loop: the web fallback, answer_from_web(query, constraints); a failure
\* is caught and answered with a fixed text
loop_web ==
    /\ bPc = "web"
    /\ bTurn' = [bTurn EXCEPT !.stages =
                    Append(@, [stage |-> "web", constraints |-> bTurn.constraints])]
    /\ bPc' = "answer"
    /\ UNCHANGED <<storeVars, slugVars, guardVars, cascadeVars, webVars, mergeVars,
                   managerVars, bBuf, bActive, bPushed>>

\* the loop: push_buffer("assistant", ...), the update of active_context, and
\* mem.log_turn(session_id, "assistant", answer_text)
loop_answer ==
    /\ bPc = "answer"
    /\ push_buffer("assistant", TRUE, bTurn.intent)
    /\ LET merged == merge_constraints(bActive, bTurn.constraints)
       IN  IF updates_context(bTurn.intent)
           THEN IF merged.raised
                THEN bPc' = "crashed" /\ UNCHANGED <<bActive, mmDb>>
                ELSE /\ bActive' = merged.map
                     /\ mmDb' = turns_insert(mmDb, 1, "assistant")
                     /\ bPc' = "remember"
           ELSE /\ mmDb' = turns_insert(mmDb, 1, "assistant")
                /\ bPc' = "remember"
                /\ UNCHANGED bActive
    /\ UNCHANGED <<storeVars, slugVars, guardVars, cascadeVars, webVars, mergeVars,
                   mmPc, mmCalls, bTurn>>

\* the loop: mem.store_facts(session_id, facts) and, if
\* detect_watchlist_from_turn says so, mem.create_watchlist(...)
loop_remember ==
    /\ bPc = "remember"
    /\ \E names \in {<<>>, <<Grandview>>}, create_watch \in WatchDecisions :
          LET stored == facts_insert(mmDb, 1, names, Now)
          IN  /\ mmDb' = IF create_watch
                         THEN watchlist_insert(stored, monitor_regs, <<>>, Now)
                         ELSE stored
              /\ mmCalls' = Append(mmCalls,
                                   CallOf(IF create_watch THEN "create_watchlist"
                                          ELSE "store_facts", 1, FailedSummary))
              /\ bTurn' = LoopIdle
    /\ bPc' = "user"
    /\ UNCHANGED <<storeVars, slugVars, guardVars, cascadeVars, webVars, mergeVars,
                   mmPc, bBuf, bActive, bPushed>>

NextLoop ==
    \/ seed_buffer_none
    \/ seed_buffer_push
    \/ seed_buffer_active
    \/ loop_input
    \/ loop_classify
    \/ loop_semantic
    \/ loop_web
    \/ loop_answer
    \/ loop_remember

SpecLoop ==
    InitLoop /\ [][NextLoop]_vars

\* the intents after which the loop updates active_context
FactBearing ==
    {"fact_lookup", "followup"}

\* the step classifies a turn and hands its constraints to the cascade
Classified ==
    bPc = "classify" /\ bPc' = "semantic"

\* C31: on a turn classified "command" neither the semantic stage nor the web
\* stage is invoked.
C31_CommandSkipsCascade ==
    bTurn.intent = "command" => bTurn.stages = <<>>

\* C32 as stated: the cascade's constraints are the merge with active_context
\* on every turn that inherits, whatever its intent, and the extracted
\* constraints otherwise.
C32_InheritsAlwaysMerges ==
    [][Classified =>
          bTurn'.constraints
            = (IF bTurn'.inherits
               THEN merge_constraints(bActive, bTurn'.extracted).map
               ELSE bTurn'.extracted)]_vars

\* C32: the constraints the cascade uses are the merge of active_context with
\* the extracted constraints when the turn inherits and its intent is followup
\* or fact_lookup; on every other turn they are the extracted constraints alone.
C32_FactTurnsThatInheritMerge ==
    [][Classified =>
          /\ bTurn'.constraints
               = (IF bTurn'.inherits /\ bTurn'.intent \in FactBearing
                  THEN merge_constraints(bActive, bTurn'.extracted).map
                  ELSE bTurn'.extracted)
          /\ bTurn'.before = bActive]_vars

\* C32 witness: a chat turn that inherits reached the semantic stage with its
\* extracted constraints alone, though active_context holds topics a merge would
\* have added
C32_Witness ==
    /\ bPc = "answer"
    /\ bTurn.intent = "chat" /\ bTurn.inherits
    /\ bTurn.before["topics"] = ListVal(<<StrVal("flood")>>)
    /\ bTurn.extracted["location"] = StrVal("TX")
    /\ bTurn.stages # <<>>
    /\ bTurn.stages[1].constraints = bTurn.extracted
    /\ bTurn.stages[1].constraints # merge_constraints(bTurn.before, bTurn.extracted).map

\* C36: a step of a chat, recall or command turn leaves active_context as it
\* is; the update of a fact_lookup or followup turn sets it to the merge of
\* the active_context the turn began with and the turn's constraints; and no
\* step removes a key from active_context.
C36_ActiveContextOnlyAfterFactTurns ==
    /\ [][(bPc = "classify" /\ bTurn'.intent \notin FactBearing) => bActive' = bActive]_vars
    /\ [][(bPc \in {"semantic", "web", "answer", "remember"}
              /\ bTurn.intent \notin FactBearing) => bActive' = bActive]_vars
    /\ [][(bPc = "answer" /\ bPc' = "remember" /\ bTurn.intent \in FactBearing)
              => bActive' = merge_constraints(bTurn.before, bTurn.constraints).map]_vars
    /\ [][(bPc \in {"user", "remember"}) => bActive' = bActive]_vars
    /\ [][\A k \in MergeKeys : bActive[k] # Absent => bActive'[k] # Absent]_vars

\* C36 witness: a followup turn that inherits was answered; active_context held
\* a topics list at its start and now holds that list with the turn's topic
\* added, and the location the turn began with is still there
C36_Witness ==
    /\ bPc = "remember"
    /\ bTurn.intent = "followup" /\ bTurn.inherits
    /\ bTurn.before["topics"] = ListVal(<<StrVal("flood")>>)
    /\ bTurn.before["location"] = StrVal("TX")
    /\ bTurn.extracted["topics"] = StrVal("housing")
    /\ bActive["topics"] = ListVal(<<StrVal("flood"), StrVal("housing")>>)
    /\ bActive["location"] = StrVal("TX")

====
